---- MODULE Spec2Model ----
(***************************************************************************)
(* Document subsystem of the recruiting application: the serverless        *)
(* handlers /api/{list,upload,update,delete}-document and                  *)
(* /api/get-document-url over the documents table and the documents        *)
(* storage bucket, and the client-side DocumentContext operations.         *)
(*                                                                         *)
(* A handler is an async function: it runs to its next `await` without     *)
(* interruption, so every action below is "the awaited call takes effect   *)
(* and the handler runs on to its next await or to its response".          *)
(***************************************************************************)
EXTENDS Integers, Sequences, FiniteSets, TLC

VARIABLES
    configured,   \* SUPABASE_SERVICE_ROLE_KEY (and SUPABASE_URL) set in the environment
    rows,         \* the documents table: id -> row
    nextId,       \* the table's serial id
    storage,      \* keys of the objects in the `documents` bucket
    now,          \* Date.now()
    reqs,         \* handler invocations: slot -> invocation record
    client,       \* the DocumentProvider of one browser
    served,       \* requests received and client operations started so far
    orphaned,     \* history: keys stored by an upload whose row insert then failed
    dangling,     \* history: ids of rows whose deletion failed after their object was removed
    wizard,       \* the OnboardingPage of that browser
    viewer        \* the PublicProfilePage of that browser

vars == <<client, configured, rows, nextId, storage, now, reqs, served, orphaned, dangling,
          wizard, viewer>>

----------------------------------------------------------------------------
(* Bounds *)

MaxDocs == 2      \* rows ever inserted
MaxNow == 2       \* clock readings 0..MaxNow
MaxReq == 1       \* handler invocations alive at the same time
MaxServed == 2    \* requests received in one behaviour
MaxSaves == 2     \* autosave calls of updateProfile in one behaviour
MaxAdvances == 2  \* delayed step advances pending at the same time

----------------------------------------------------------------------------
(* Values *)

Users == {"u1", "u2"}
NoUser == "nobody"
Undef == "undefined"
Null == "null"
NoDoc == 0
NoKey == <<>>

Slots == 1..MaxReq
DocIds == 1..MaxDocs

Endpoints == {"list", "upload", "uploadChecked", "update", "updateScoped", "delete",
              "deleteScoped", "getUrl", "getUrlScoped"}

\* upload-document, and its variant that rejects a file over the limit
Uploads == {"upload", "uploadChecked"}

\* The Authorization header: absent, or a scheme and what follows it.
NoHeader == [present |-> FALSE, scheme |-> "", rest |-> ""]
Headers == {NoHeader}
           \cup {[present |-> TRUE, scheme |-> "Basic ", rest |-> "u1"]}
           \cup {[present |-> TRUE, scheme |-> "Bearer ", rest |-> t] :
                     t \in Users \cup {"", "stale"}}

\* A JSON request body. `name`, `visibility` and `user_id` are the fields of the
\* body itself (update-document.js) or of its `updates` object (user-scoped variant).
NoBody == [hasBody |-> FALSE, docId |-> NoDoc, hasUpdates |-> FALSE,
           name |-> Undef, visibility |-> Undef, user_id |-> Undef]
Bodies == {NoBody}
          \cup {[hasBody |-> TRUE, docId |-> d, hasUpdates |-> u,
                 name |-> n, visibility |-> v, user_id |-> x] :
                    d \in {NoDoc} \cup DocIds, u \in BOOLEAN,
                    n \in {Undef, "b"}, v \in {Undef, "public", "weird"},
                    x \in {Undef, "u2"}}

\* The bodies an endpoint tells apart: the fields it does not read are left out.
\* list-documents reads no body and upload-document a multipart one.
BodiesOf(ep) ==
    IF ep \in {"list"} \cup Uploads THEN {NoBody}
    ELSE IF ep = "update" THEN {b \in Bodies : ~b.hasUpdates}
    ELSE IF ep = "updateScoped"
         THEN {b \in Bodies : b.hasUpdates \/ (b.name = Undef /\ b.visibility = Undef
                                                              /\ b.user_id = Undef)}
    ELSE {b \in Bodies : ~b.hasUpdates /\ b.name = Undef /\ b.visibility = Undef
                                       /\ b.user_id = Undef}

\* A multipart upload body.
NoFile == [hasFile |-> FALSE, filename |-> "", size |-> 0]
Files == {NoFile, [hasFile |-> TRUE, filename |-> "f", size |-> 2048]}

\* limits.fileSize of parseMultipart, and the same bodies with a file part one
\* byte over it
FileSizeLimit == 15 * 1024 * 1024
SentFiles == Files \cup {[hasFile |-> TRUE, filename |-> "f", size |-> FileSizeLimit + 1]}
FieldNames == {Undef, " "}
FieldVisibilities == {Undef, "public", "weird"}

\* The backend client reports a failure in the `error` of its result; it does not throw.
Outcomes == {"ok", "error"}

\* What arrives at an endpoint: a method and an Authorization header. The header
\* plays no part for a preflight or a method the endpoint refuses.
Arrivals(ep) ==
    {<<"OPTIONS", NoHeader>>, <<IF ep = "list" THEN "POST" ELSE "GET", NoHeader>>}
    \cup {<<IF ep = "list" THEN "GET" ELSE "POST", h>> : h \in Headers}

NoPayload == [name |-> Undef, visibility |-> Undef, user_id |-> Undef]

Idle == [ep |-> "none", pc |-> "idle", method |-> "", hdr |-> NoHeader, user |-> NoUser,
         docId |-> NoDoc, extra |-> Undef, payload |-> NoPayload, size |-> <<>>, key |-> NoKey,
         status |-> 0, rkey |-> "none", rval |-> "", calls |-> <<>>, errors |-> {},
         oversize |-> FALSE, answers |-> 0]

----------------------------------------------------------------------------
(* Pure parts of the handlers *)

OwnMethod(ep) == IF ep = "list" THEN "GET" ELSE "POST"

\* authHeader && authHeader.startsWith('Bearer ')
HasBearer(hdr) == hdr.present /\ hdr.scheme = "Bearer "

\* authHeader.slice(7)
AccessToken(hdr) == hdr.rest

\* The header check of each handler: TRUE when the handler goes on to auth.getUser.
\* upload-document rejects an empty token itself (`if (!token)`); the others pass
\* it to the auth service.
HeaderAccepted(ep, hdr) ==
    IF ep \in Uploads THEN HasBearer(hdr) /\ AccessToken(hdr) # ""
    ELSE HasBearer(hdr)

\* Variant: any non-empty token is taken for a session of u1
GetUserLax(token) == IF token = "" THEN NoUser ELSE IF token \in Users THEN token ELSE "u1"

\* adminClient.auth.getUser(token): the user a session token belongs to.
GetUser(token) == IF token \in Users THEN token ELSE NoUser

\* String.prototype.trim on the names of the model.
Trim(str) == IF str = " " THEN "" ELSE str

\* a || b on strings and undefined
OrElse(a, b) == IF a = Undef \/ a = "" THEN b ELSE a

\* (fields.name || file.filename || '').toString().trim()
DisplayName(fname, file) == Trim(OrElse(OrElse(fname, file.filename), ""))

\* (fields.visibility || 'private').toString() === 'public' ? 'public' : 'private'
UploadVisibility(fvis) == IF OrElse(fvis, "private") = "public" THEN "public" ELSE "private"

\* `${userId}/${Date.now()}_${file.filename}`
FilePath(userId, ts, filename) == <<userId, ts, filename>>

\* sizeKb > 1024 ? `${(sizeKb / 1024).toFixed(1)} MB` : `${sizeKb.toFixed(1)} KB`,
\* as <<tenths, unit>> (toFixed(1) rounds to the nearest tenth).
SizeLabel(size) ==
    IF size > 1024 * 1024
    THEN <<(size * 10 + 524288) \div 1048576, "MB">>
    ELSE <<(size * 10 + 512) \div 1024, "KB">>

\* Variant: every field of the body goes into the payload
SpreadUpdates(body) ==
    [name |-> body.name, visibility |-> body.visibility, user_id |-> body.user_id]

\* update-document.js: the payload built from the body's own name and visibility.
BuildUpdates(body) ==
    [name |-> body.name, visibility |-> body.visibility, user_id |-> Undef]

\* user-scoped variant: the allow-list loop over ['name', 'visibility'] of body.updates.
SanitizeUpdates(body) ==
    [name |-> body.name, visibility |-> body.visibility, user_id |-> Undef]

\* Object.keys(updates).length === 0
EmptyUpdates(p) == p.name = Undef /\ p.visibility = Undef /\ p.user_id = Undef

\* Variant: no ownership test
OwnsAny(user, row) == TRUE

\* existingDoc.user_id !== user.id, and the .eq('user_id', user.id) filter
Owns(user, row) == row.user_id = user

\* get-document-url: doc.user_id !== user.id && doc.visibility !== 'public' denies.
MayRead(user, row) == Owns(user, row) \/ row.visibility = "public"

\* storage.getPublicUrl(path) and storage.createSignedUrl(path, 60 * 10)
SignedUrlTtl == 600
NoUrl == <<>>
PublicUrl(path) == <<"public", path>>
SignedUrl(path) == <<"signed", path, SignedUrlTtl>>

----------------------------------------------------------------------------
(* The backing database and storage *)

\* .update(p).eq('id', id): every column named in the payload is written.
ApplyUpdate(row, p) ==
    [row EXCEPT !.name = IF p.name = Undef THEN @ ELSE p.name,
                !.visibility = IF p.visibility = Undef THEN @ ELSE p.visibility,
                !.user_id = IF p.user_id = Undef THEN @ ELSE p.user_id]

\* .delete().eq('id', id)
WithoutRow(table, id) == [d \in (DOMAIN table) \ {id} |-> table[d]]

\* .insert(row): the table assigns the id and created_at.
WithRow(table, id, row) == [d \in (DOMAIN table) \cup {id} |-> IF d = id THEN row ELSE table[d]]

\* .select('*').eq('user_id', user)
IdsOf(table, user) == {d \in DOMAIN table : table[d].user_id = user}

\* Variant: upsert: true
StoreUpserts(bucket, key) == TRUE

\* storage.upload(path, body, { upsert: false }): an existing key is refused.
StoreAccepts(bucket, key) == key \notin bucket

\* A row as .select() returns it
DocRow(id, row) ==
    [id |-> id, user_id |-> row.user_id, name |-> row.name, size |-> row.size,
     visibility |-> row.visibility, file_path |-> row.file_path,
     created_at |-> row.created_at]

NoRow == DocRow(NoDoc, [user_id |-> NoUser, name |-> "", size |-> <<>>, visibility |-> "",
                        file_path |-> NoKey, created_at |-> 0])

\* Variant: the user_id filter is dropped
SelectAny(table, id, user, scoped, o) ==
    IF o = "ok" /\ id \in DOMAIN table THEN DocRow(id, table[id]) ELSE NoRow

\* .select(...).eq('id', docId)[.eq('user_id', user)].single(): the row, or NoRow when
\* the query fails or matches nothing (`fetchError || !doc`).
SelectOne(table, id, user, scoped, o) ==
    IF o = "ok" /\ id \in DOMAIN table /\ (scoped => table[id].user_id = user)
    THEN DocRow(id, table[id])
    ELSE NoRow

----------------------------------------------------------------------------
(* Responses *)

\* json(res, status, body) / res.status(status).json(body): the handler answers and ends.
\* `answers` counts the res.end() calls of the invocation.
Respond(r, status, rkey, rval) ==
    [r EXCEPT !.pc = "done", !.status = status, !.rkey = rkey, !.rval = rval,
              !.payload = NoPayload, !.size = <<>>, !.key = NoKey, !.answers = @ + 1]

\* Variant: the text is sent under `message`
FailAsMessage(r, status, msg) == Respond(r, status, "message", msg)

Fail(r, status, msg) == Respond(r, status, "error", msg)

\* The handler issues a call on the documents table or the bucket and awaits it.
Await(r, pc, call) == [r EXCEPT !.pc = pc, !.calls = Append(@, call)]

WithKey(r, key) == [r EXCEPT !.key = key]

\* The backend reports an error to the handler.
Reported(r, what, o) == IF o = "error" THEN [r EXCEPT !.errors = @ \cup {what}] ELSE r

\* Variant: the catch logs the error and returns
CaughtUnanswered(r) == [r EXCEPT !.pc = "done"]

\* catch (err): 500 with err.message
Caught(r) == Fail(r, 500, "thrown")

\* error.message of a failed table or bucket call
DbError == "db error"
StorageError == "storage error"

\* The backend as a deployment finds it: empty, or holding documents uploaded
\* at an earlier instant (a private one of u1 and a public one of u2, each with
\* its object).
SeedKey(u) == <<u, 0, "f">>
SeedRow(u, v, at) == [user_id |-> u, name |-> "f", size |-> <<20, "KB">>, visibility |-> v,
                      file_path |-> SeedKey(u), created_at |-> at]
Databases ==
    {[rows |-> [d \in {} |-> SeedRow("u1", "private", d)], nextId |-> 1, storage |-> {}],
     [rows |-> [d \in {1, 2} |-> IF d = 1 THEN SeedRow("u1", "private", d)
                                          ELSE SeedRow("u2", "public", d)],
      nextId |-> 3, storage |-> {SeedKey("u1"), SeedKey("u2")}]}

\* The backend and the handlers, before any request
InitServer ==
    /\ configured \in BOOLEAN
    /\ \E db \in Databases :
          /\ rows = db.rows
          /\ nextId = db.nextId
          /\ storage = db.storage
    /\ now = 1
    /\ reqs = [s \in Slots |-> Idle]
    /\ served = 0
    /\ orphaned = {}
    /\ dangling = {}

----------------------------------------------------------------------------
(* OnboardingPage: its state *)

\* The fields of the form, and the keys of a UserProfile in the order
\* JSON.stringify meets them
FormFields == {"photo_url", "industry", "name", "title", "location", "experience",
               "skills", "bio"}
KeyOrder == <<"id", "photo_url", "industry", "name", "title", "location", "experience",
              "skills", "bio">>

\* `profile` of the context when it is null
NoProfile == [k \in FormFields \cup {"id"} |-> Null]

\* useState({ photo_url: '', name: '', ..., skills: [] }): no id yet
EmptyForm == [k \in FormFields \cup {"id"} |-> IF k = "id" THEN Undef ELSE ""]

\* The profile of a user who has not filled anything in
UserProfile(id) == [EmptyForm EXCEPT !["id"] = id]

\* JSON.stringify: the keys that are set, in order, each with its value
Stringify(d) ==
    SelectSeq([i \in DOMAIN KeyOrder |-> <<KeyOrder[i], d[KeyOrder[i]]>>],
              LAMBDA kv : kv[2] # Undef)

\* The steps of the wizard, `photo` and `bio` with isOptional, the others with
\* isValid: !!formData[field]
StepIds == <<"photo", "industry", "name", "title", "location", "experience", "skills", "bio">>
StepId(w) == StepIds[w.currentStep + 1]
IsOptional(w) == StepId(w) \in {"photo", "bio"}
IsValid(w) == StepId(w) \notin {"photo", "bio"} /\ w.formData[StepId(w)] # ""

\* steps[currentStep] exists: the page renders
Rendered(w) == w.currentStep \in 0 .. Len(StepIds) - 1

\* The component's useState and useRef values. timers are the pending
\* setTimeout(save, 1500) callbacks, each with the formData it closed over and
\* the time it has waited; hasCleanup: the last run of the autosave effect
\* returned its cleanup. sinceChange is the time since formData last changed,
\* saves the updateProfile(formData) calls in flight, pushed their number so far.
\* photo is where handlePhotoUpload stands, advances the pending
\* setTimeout(() => setCurrentStep(s => s + 1)) of the suggestion buttons.
Constructed(profile, step) ==
    [profile |-> profile, formData |-> EmptyForm, lastPushed |-> <<>>,
     saveTimerRef |-> 0, timers |-> {}, hasCleanup |-> FALSE, saveStatus |-> "idle",
     sinceChange |-> 0, saves |-> <<>>, pushed |-> 0,
     currentStep |-> step, isPhotoModalOpen |-> FALSE, photo |-> "idle", advances |-> 0]

----------------------------------------------------------------------------
(* OnboardingPage: the autosave effect and the wizard's handlers *)

SaveDelay == 1500

\* clearTimeout(saveTimerRef.current)
ClearTimeout(w) == [w EXCEPT !.timers = {t \in @ : t.id # w.saveTimerRef}]

\* The id setTimeout returns: one no pending timer has and the ref does not hold
FreshTimer(w) ==
    LET used == {t.id : t \in w.timers} \cup {w.saveTimerRef}
    IN CHOOSE i \in 1 .. Cardinality(used) + 1 :
          i \notin used /\ \A j \in 1 .. i - 1 : j \in used

\* Variant: the effect neither cleans up nor clears the timer it replaces
AutosaveEffectKeepsTimer(w) ==
    IF w.profile = NoProfile \/ Stringify(w.formData) = w.lastPushed
    THEN [w EXCEPT !.hasCleanup = FALSE]
    ELSE LET id == FreshTimer(w)
         IN [w EXCEPT !.timers = @ \cup {[id |-> id, data |-> w.formData, age |-> 0]},
                      !.saveTimerRef = id, !.saveStatus = "saving", !.hasCleanup = TRUE]

\* One run of the autosave effect, after a render that changed formData or
\* profile: the cleanup of its last run, then its body
AutosaveEffect(w) ==
    LET c == IF w.hasCleanup THEN ClearTimeout(w) ELSE w
    IN IF c.profile = NoProfile \/ Stringify(c.formData) = c.lastPushed
       THEN [c EXCEPT !.hasCleanup = FALSE]
       ELSE LET d == ClearTimeout(c)
                id == FreshTimer(d)
            IN [d EXCEPT !.timers = @ \cup {[id |-> id, data |-> d.formData, age |-> 0]},
                         !.saveTimerRef = id, !.saveStatus = "saving", !.hasCleanup = TRUE]

\* setFormData(d): a new object, so the effect runs
SetFormData(w, d) ==
    AutosaveEffect([w EXCEPT !.formData = d,
                             !.sinceChange = IF d = w.formData THEN @ ELSE 0])

\* The effects of a render with a new `profile`: the profile effect
\* (setFormData(profile), lastPushedDataRef = JSON.stringify(profile)), the
\* autosave effect of that render, and the render setFormData brings
ProfileEffects(w) ==
    IF w.profile = NoProfile THEN AutosaveEffect(w)
    ELSE SetFormData(AutosaveEffect([w EXCEPT !.lastPushed = Stringify(w.profile)]),
                     w.profile)

\* The page mounted with the profile the context holds
Onboarding(profile, step) == ProfileEffects(Constructed(profile, step))

\* updateProfile(updates) of the profile context, when it succeeds: the
\* UserProfile is mutated, and the context hands out the new profile
UpdateProfile(profile, updates) ==
    IF profile = NoProfile THEN NoProfile
    ELSE [k \in DOMAIN profile |-> IF updates[k] # Undef THEN updates[k] ELSE profile[k]]

\* What handlePhotoUpload pushes: { photo_url }
PhotoUpdate == [k \in FormFields \cup {"id"} |-> IF k = "photo_url" THEN "x" ELSE Undef]

Pages(w) ==
    /\ wizard' = w
    /\ UNCHANGED <<client, configured, rows, nextId, storage, now, reqs, served, orphaned,
                   dangling, viewer>>

\* The context hands out another profile: the user logged out, or the profile
\* was loaded again
ProfileChanges(p) ==
    /\ wizard.profile # p
    /\ Pages(ProfileEffects([wizard EXCEPT !.profile = p]))

\* handleChange, on the input of the step shown; the TagInput of `skills`
HandleChange(v) ==
    /\ Rendered(wizard)
    /\ StepId(wizard) \in {"name", "title", "location", "experience", "skills", "bio"}
    /\ Pages(SetFormData(wizard, [wizard.formData EXCEPT ![StepId(wizard)] = v]))

\* An industry button: setFormData, setCurrentStep(s => s + 1)
PickIndustry ==
    /\ Rendered(wizard)
    /\ StepId(wizard) = "industry"
    /\ Pages([SetFormData(wizard, [wizard.formData EXCEPT !["industry"] = "x"])
                 EXCEPT !.currentStep = @ + 1])

\* onKeyDown: e.key === 'Enter' && formData[field] && setCurrentStep(s => s + 1)
PressEnter ==
    /\ Rendered(wizard)
    /\ StepId(wizard) \in {"name", "title", "location", "experience"}
    /\ wizard.formData[StepId(wizard)] # ""
    /\ Pages([wizard EXCEPT !.currentStep = @ + 1])

\* A suggested title or an experience button: setFormData, and
\* setTimeout(() => setCurrentStep(s => s + 1), 200 or 300)
ClickSuggestion ==
    /\ Rendered(wizard)
    /\ StepId(wizard) \in {"title", "experience"}
    /\ wizard.advances < MaxAdvances
    /\ Pages([SetFormData(wizard, [wizard.formData EXCEPT ![StepId(wizard)] = "x"])
                 EXCEPT !.advances = @ + 1])

AdvanceFires ==
    /\ Rendered(wizard)
    /\ wizard.advances > 0
    /\ Pages([wizard EXCEPT !.advances = @ - 1, !.currentStep = @ + 1])

\* Back: setCurrentStep(s => Math.max(0, s - 1)), disabled on the first step
Back ==
    /\ Rendered(wizard)
    /\ wizard.currentStep # 0
    /\ Pages([wizard EXCEPT !.currentStep = IF @ - 1 > 0 THEN @ - 1 ELSE 0])

\* Skip for now, shown on an optional step: setCurrentStep(s => s + 1)
Skip ==
    /\ Rendered(wizard)
    /\ IsOptional(wizard)
    /\ Pages([wizard EXCEPT !.currentStep = @ + 1])

\* Continue, shown before the last step, disabled unless valid or optional
Continue ==
    /\ Rendered(wizard)
    /\ wizard.currentStep < Len(StepIds) - 1
    /\ IsValid(wizard) \/ IsOptional(wizard)
    /\ Pages([wizard EXCEPT !.currentStep = @ + 1])

\* The photo of the first step opens the modal; the modal closes
TogglePhotoModal ==
    /\ Rendered(wizard)
    /\ wizard.isPhotoModalOpen \/ StepId(wizard) = "photo"
    /\ Pages([wizard EXCEPT !.isPhotoModalOpen = ~@])

\* handlePhotoUpload(file), up to `await storage.upload`
HandlePhotoUpload ==
    /\ Rendered(wizard)
    /\ wizard.isPhotoModalOpen
    /\ wizard.photo = "idle"
    /\ client.backend /\ wizard.profile # NoProfile
    /\ Pages([wizard EXCEPT !.photo = "storing"])

\* The upload settled (its result is not looked at; a rejection is caught:
\* alert), then `await updateProfile({ photo_url })`
PhotoStored(o) ==
    /\ wizard.photo = "storing"
    /\ Pages([wizard EXCEPT !.photo = IF o = "throw" THEN "idle" ELSE "saving"])

\* updateProfile settled: setFormData(prev => ({ ...prev, photo_url })),
\* setIsPhotoModalOpen(false), setCurrentStep(s => s + 1); or the catch
PhotoDone(w, o) ==
    IF o # "ok" THEN [w EXCEPT !.photo = "idle"]
    ELSE LET d == SetFormData(w, [w.formData EXCEPT !["photo_url"] = "x"])
         IN ProfileEffects([d EXCEPT !.photo = "idle", !.isPhotoModalOpen = FALSE,
                                     !.currentStep = @ + 1,
                                     !.profile = UpdateProfile(@, PhotoUpdate)])

PhotoSaved(o) ==
    /\ wizard.photo = "saving"
    /\ Rendered(wizard)
    /\ Pages(PhotoDone(wizard, o))

\* 1500 ms pass
Tick ==
    /\ wizard.sinceChange < SaveDelay \/ \E t \in wizard.timers : t.age < SaveDelay
    /\ Pages([wizard EXCEPT !.sinceChange = SaveDelay,
                            !.timers = {[t EXCEPT !.age = SaveDelay] : t \in @}])

\* A save timer fires: updateProfile(formData) is called with the formData
\* the callback closed over
SaveTimerFired(w, t) ==
    [w EXCEPT !.timers = @ \ {t}, !.saves = Append(@, t.data), !.pushed = @ + 1]

TimerFires ==
    /\ wizard.pushed < MaxSaves
    /\ \E t \in wizard.timers :
          /\ t.age >= SaveDelay
          /\ Pages(SaveTimerFired(wizard, t))

\* The save's updateProfile settled. Resolved: lastPushedDataRef.current =
\* currentDataStr, setSaveStatus('saved'), and the render with the new profile
\* runs the effects, before that continuation or after it. Rejected:
\* setSaveStatus('error').
SaveDone(w, i, o, first) ==
    LET data == w.saves[i]
        rest == [w EXCEPT !.saves = SubSeq(@, 1, i - 1) \o SubSeq(@, i + 1, Len(@))]
        Then(x) == [x EXCEPT !.lastPushed = Stringify(data), !.saveStatus = "saved"]
        Render(x) == ProfileEffects([x EXCEPT !.profile = UpdateProfile(@, data)])
    IN IF o # "ok" THEN [rest EXCEPT !.saveStatus = "error"]
       ELSE IF first = "then" THEN Render(Then(rest))
       ELSE Then(Render(rest))

SaveSettle(i, o, first) ==
    /\ i \in DOMAIN wizard.saves
    /\ Pages(SaveDone(wizard, i, o, first))

\* PublicProfilePage: its useState and useRef values for the route /profile/:userId,
\* and the queries it has in flight
PublicPage(userId) ==
    [cleanUserId |-> userId, publicProfile |-> Null, pageLoading |-> TRUE,
     pageError |-> Null, publicDocuments |-> <<>>, documentsLoading |-> FALSE,
     fetchedProfileId |-> Null, flights |-> {}]

\* What belongs to one operation of the provider or the page: where it stands,
\* its arguments and locals, the calls it has issued, what it logged.
\* `result` and `data` are the answer of a call that has taken effect at the
\* backend and is on its way back.
NoOp ==
    [pc |-> "idle", docId |-> NoDoc, payload |-> NoPayload, size |-> <<>>, key |-> NoKey,
     calls |-> <<>>, errors |-> {}, thrown |-> FALSE, myToken |-> 0,
     op |-> "none", session |-> FALSE, url |-> NoUrl, result |-> "", data |-> NoPayload,
     row |-> NoDoc, userId |-> NoUser]

\* A mounted DocumentProvider: useState([]), useState(true), useState(null); and
\* the DocumentsPage it serves, its upload dialog closed and uploadTokenRef at 0.
\* myToken is the token of the handleUploadSubmit in flight (0: none). For a
\* resolveDocUrl, op is "resolve", session tells whether it found an access
\* token and url is what it returned (NoUrl: null). The record holds one
\* operation; `waiting` holds a second one that awaits a call meanwhile.
\* rowBusyId is the page's useState(null) (NoDoc: null); row is the document
\* whose row handler called the operation (NoDoc: none did); userId is the
\* argument of the fetchDocuments in flight.
Mounted(backend, profile) ==
    [backend |-> backend, profile |-> profile, documents |-> <<>>, loading |-> TRUE,
     error |-> Null, pc |-> "idle", docId |-> NoDoc, payload |-> NoPayload, size |-> <<>>,
     key |-> NoKey, calls |-> <<>>, errors |-> {}, thrown |-> FALSE,
     isUploadOpen |-> FALSE, uploadFile |-> NoFile, uploadName |-> "",
     uploadVisibility |-> "private", uploadError |-> Null, uploadBusy |-> FALSE,
     uploadToken |-> 0, myToken |-> 0,
     op |-> "none", session |-> FALSE, url |-> NoUrl, result |-> "", data |-> NoPayload,
     rowBusyId |-> NoDoc, row |-> NoDoc, userId |-> NoUser, waiting |-> NoOp]

\* The browser of u1, built with the backend configured
\* The pages this browser does not show
OtherPages == wizard = Constructed(NoProfile, 0) /\ viewer = PublicPage("me")

Init == InitServer /\ client = Mounted(TRUE, "u1") /\ OtherPages

\* Any browser: built with or without the backend, signed in or not
InitClient ==
    /\ InitServer
    /\ \E b \in BOOLEAN, p \in Users \cup {NoUser} : client = Mounted(b, p)
    /\ OtherPages

\* No response is waiting to be handed to its client. A response is handed over
\* before any other step: what happens in between changes nothing it holds.
Quiet == \A s \in Slots : reqs[s].pc # "done"

----------------------------------------------------------------------------
(* Every handler, from its entry to `await auth.getUser` *)

Entry(ep, method, hdr) ==
    LET r == [Idle EXCEPT !.ep = ep, !.method = method, !.hdr = hdr] IN
    IF method = "OPTIONS" THEN Respond(r, 200, "none", "")
    ELSE IF method # OwnMethod(ep) THEN Fail(r, 405, "Method not allowed")
    ELSE IF ~configured
         THEN Fail(r, 500, IF ep \in Uploads THEN "Missing env var"
                           ELSE "Server misconfiguration: missing service key")
    ELSE IF ~HeaderAccepted(ep, hdr)
         THEN Fail(r, 401, IF ep \in Uploads THEN "Missing Authorization Bearer token"
                           ELSE "Missing or invalid Authorization header")
    ELSE [r EXCEPT !.pc = "getUser"]

\* The invocation takes the lowest free slot: slots are interchangeable.
Receive(s, ep, method, hdr) ==
    /\ Quiet
    /\ reqs[s].pc = "idle"
    /\ \A t \in Slots : t < s => reqs[t].pc # "idle"
    /\ served < MaxServed
    /\ served' = served + 1
    /\ reqs' = [reqs EXCEPT ![s] = Entry(ep, method, hdr)]
    /\ UNCHANGED <<client, configured, rows, nextId, storage, now, orphaned, dangling, wizard, viewer>>

----------------------------------------------------------------------------
(* auth.getUser resolves; the handler reads its body and issues its first query *)

AfterAuth(r, body) ==
    LET u == [r EXCEPT !.user = GetUser(AccessToken(r.hdr))] IN
    IF u.user = NoUser
    THEN Fail(u, 401, IF r.ep \in Uploads THEN "Invalid session token"
                      ELSE "Invalid or expired session. Please sign in again.")
    ELSE IF r.ep = "list" THEN Await(u, "select", "db.select")
    ELSE IF r.ep \in Uploads THEN [u EXCEPT !.pc = "parse"]
    ELSE IF ~body.hasBody
         \* const { docId } = req.body throws on an undefined body;
         \* the variants reading `req.body || {}` find no docId
         THEN IF r.ep \in {"update", "delete", "getUrl"} THEN Caught(u)
              ELSE Fail(u, 400, "Missing docId in request body")
    ELSE IF body.docId = NoDoc
         THEN Fail(u, 400, IF r.ep \in {"update", "delete", "getUrl"} THEN "Missing docId"
                           ELSE "Missing docId in request body")
    ELSE LET d == [u EXCEPT !.docId = body.docId]
             \* `extra`: a field of the body that is neither name nor visibility
             e == [d EXCEPT !.extra = body.user_id]
         IN
         IF r.ep = "updateScoped"
         THEN IF ~body.hasUpdates THEN Fail(d, 400, "Missing updates in request body")
              ELSE IF EmptyUpdates(SanitizeUpdates(body))
                   THEN Fail(d, 400, "No valid fields to update")
              ELSE Await([e EXCEPT !.payload = SanitizeUpdates(body)], "select", "db.select")
         ELSE IF r.ep = "update"
         THEN Await([e EXCEPT !.payload = BuildUpdates(body)], "select", "db.select")
         ELSE Await(d, "select", "db.select")

Authenticate(s, body) ==
    /\ Quiet
    /\ reqs[s].pc = "getUser"
    /\ body \in BodiesOf(reqs[s].ep)
    /\ reqs' = [reqs EXCEPT ![s] = AfterAuth(reqs[s], body)]
    /\ UNCHANGED <<client, configured, rows, nextId, storage, now, served, orphaned, dangling, wizard, viewer>>

----------------------------------------------------------------------------
(* list-documents *)

\* Variant: a public URL for every row
EnhanceAll(id, row) ==
    [id |-> id, user_id |-> row.user_id, name |-> row.name, size |-> row.size,
     visibility |-> row.visibility, file_path |-> row.file_path,
     created_at |-> row.created_at, public_url |-> PublicUrl(row.file_path)]

\* { ...doc, public_url } of the map over the selected rows
EnhanceDoc(id, row) ==
    [id |-> id, user_id |-> row.user_id, name |-> row.name, size |-> row.size,
     visibility |-> row.visibility, file_path |-> row.file_path,
     created_at |-> row.created_at,
     public_url |-> IF row.visibility = "public" THEN PublicUrl(row.file_path) ELSE NoUrl]

\* .order('created_at', { ascending: false })
RECURSIVE Newest(_, _)
Newest(table, ids) ==
    IF ids = {} THEN <<>>
    ELSE LET d == CHOOSE x \in ids : \A y \in ids : table[x].created_at >= table[y].created_at
         IN <<EnhanceDoc(d, table[d])>> \o Newest(table, ids \ {d})

\* .from('documents').select('*').eq('user_id', user.id).order(...), then the map
ListDocuments(table, user) == Newest(table, IdsOf(table, user))

ListSelected(r, o, docs) ==
    IF o = "error" THEN Fail(r, 500, DbError) ELSE Respond(r, 200, "documents", docs)

ListSelect(s, o) ==
    /\ Quiet
    /\ reqs[s].pc = "select" /\ reqs[s].ep = "list"
    /\ LET r == Reported(reqs[s], "db", o) IN
       reqs' = [reqs EXCEPT ![s] = ListSelected(r, o, ListDocuments(rows, r.user))]
    /\ UNCHANGED <<client, configured, rows, nextId, storage, now, served, orphaned, dangling, wizard, viewer>>

----------------------------------------------------------------------------
(* upload-document *)

\* parseMultipart(req) on a body with the file part `sent`. The parsing library
\* hands over the bytes up to limits.fileSize, raises `limit` on the stream and
\* ends it. upload-document.js listens to `limit` with an empty function and
\* resolves with the bytes it has; the variant records fileError and rejects.
ParseMultipart(ep, sent) ==
    IF ~sent.hasFile \/ sent.size <= FileSizeLimit THEN [rejected |-> FALSE, file |-> sent]
    ELSE IF ep = "uploadChecked" THEN [rejected |-> TRUE, file |-> NoFile]
    ELSE [rejected |-> FALSE, file |-> [sent EXCEPT !.size = FileSizeLimit]]

\* parseMultipart resolved (or rejected): the name, visibility and key of the
\* document. `oversize` keeps that the file part sent was over the limit.
Parsed(r, o, sent, fname, fvis, t) ==
    LET got == ParseMultipart(r.ep, sent)
        file == got.file
        q == [r EXCEPT !.oversize = sent.size > FileSizeLimit]
    IN
    IF o = "throw" THEN Caught(r)
    ELSE IF got.rejected THEN Caught(q)
    ELSE IF ~file.hasFile THEN Fail(q, 400, "Missing file")
    ELSE IF DisplayName(fname, file) = "" THEN Fail(q, 400, "Missing name")
    ELSE Await([q EXCEPT !.payload = [name |-> DisplayName(fname, file),
                                      visibility |-> UploadVisibility(fvis),
                                      user_id |-> r.user],
                         !.size = SizeLabel(file.size),
                         !.key = FilePath(r.user, t, file.filename)],
               "store", "storage.upload")

\* Date.now() reads `t`: the last reading or a later instant.
UploadParse(s, file, fname, fvis, t, o) ==
    /\ Quiet
    /\ reqs[s].pc = "parse"
    /\ o \in {"ok", "throw"}
    /\ t \in {now, now + 1} /\ t <= MaxNow
    /\ reqs' = [reqs EXCEPT ![s] = Parsed(reqs[s], o, file, fname, fvis, t)]
    /\ now' = IF reqs'[s].pc = "store" THEN t ELSE now
    /\ UNCHANGED <<client, configured, rows, nextId, storage, served, orphaned, dangling, wizard, viewer>>

\* Variant: the upload error is not looked at
StoredUnchecked(r, o) == Await(r, "insert", "db.insert")

\* if (uploadError) return json(res, 400, ...); else the insert is issued
Stored(r, o) ==
    IF o = "error" THEN Fail(r, 400, StorageError) ELSE Await(r, "insert", "db.insert")

UploadStore(s, o) ==
    /\ Quiet
    /\ reqs[s].pc = "store"
    /\ LET key == reqs[s].key
           res == IF o = "ok" /\ StoreAccepts(storage, key) THEN "ok" ELSE "error"
       IN /\ storage' = IF res = "ok" THEN storage \cup {key} ELSE storage
          /\ reqs' = [reqs EXCEPT ![s] = Stored(Reported(reqs[s], "storage", res), res)]
    /\ UNCHANGED <<client, configured, rows, nextId, now, served, orphaned, dangling, wizard, viewer>>

\* .insert({ user_id, name, size, visibility, file_path }).select().single()
\* created_at is the table's own clock at the insert: it orders rows as the serial id does.
NewRow(r, id) ==
    [user_id |-> r.payload.user_id, name |-> r.payload.name, size |-> r.size,
     visibility |-> r.payload.visibility, file_path |-> r.key, created_at |-> id]

Inserted(r, o, row) ==
    IF o = "error" THEN Fail(r, 400, DbError) ELSE Respond(r, 200, "document", row)

\* The table takes MaxDocs rows; past that the insert can only fail.
UploadInsert(s, o) ==
    /\ Quiet
    /\ reqs[s].pc = "insert"
    /\ o = "ok" => nextId <= MaxDocs
    /\ LET r == Reported(reqs[s], "db", o) IN
       /\ rows' = IF o = "ok" THEN WithRow(rows, nextId, NewRow(r, nextId)) ELSE rows
       /\ nextId' = IF o = "ok" THEN nextId + 1 ELSE nextId
       /\ orphaned' = IF o = "error" /\ r.key \in storage /\ "storage" \notin r.errors
                      THEN orphaned \cup {r.key} ELSE orphaned
       /\ reqs' = [reqs EXCEPT ![s] = Inserted(r, o, DocRow(nextId, NewRow(r, nextId)))]
    /\ UNCHANGED <<client, configured, storage, now, served, dangling, wizard, viewer>>

----------------------------------------------------------------------------
(* update-document: src/api/update-document.js ("update") and the user-scoped
   variant ("updateScoped") *)

UpdateSelected(r, doc) ==
    IF r.ep = "updateScoped"
    THEN IF doc = NoRow THEN Fail(r, 404, "Document not found or access denied")
         ELSE Await(r, "write", "db.update")
    ELSE IF doc = NoRow THEN Fail(r, 404, "Document not found")
    ELSE IF ~Owns(r.user, doc) THEN Fail(r, 403, "You do not own this document")
    ELSE IF EmptyUpdates(r.payload) THEN Fail(r, 400, "No updates provided")
    ELSE Await(r, "write", "db.update")

UpdateSelect(s, o) ==
    /\ Quiet
    /\ reqs[s].pc = "select" /\ reqs[s].ep \in {"update", "updateScoped"}
    /\ LET r == Reported(reqs[s], "db", o) IN
       reqs' = [reqs EXCEPT ![s] =
          UpdateSelected(r, SelectOne(rows, r.docId, r.user, r.ep = "updateScoped", o))]
    /\ UNCHANGED <<client, configured, rows, nextId, storage, now, served, orphaned, dangling, wizard, viewer>>

\* Variant: an update that finds no row is answered as a success
UpdatedLenient(r, o, doc) == Respond(r, 200, "document", doc)

Updated(r, o, doc) ==
    IF o = "error" THEN Fail(r, 500, DbError) ELSE Respond(r, 200, "document", doc)

\* .update(updates).eq('id', docId).select().single(): no row left to return is an error
UpdateWrite(s, o) ==
    /\ Quiet
    /\ reqs[s].pc = "write"
    /\ LET res == IF o = "ok" /\ reqs[s].docId \in DOMAIN rows THEN "ok" ELSE "error"
           r == Reported(reqs[s], "db", res)
       IN /\ rows' = IF res = "ok" THEN [rows EXCEPT ![r.docId] = ApplyUpdate(@, r.payload)]
                     ELSE rows
          /\ reqs' = [reqs EXCEPT ![s] =
                Updated(r, res, IF res = "ok" THEN DocRow(r.docId, rows'[r.docId]) ELSE NoRow)]
    /\ UNCHANGED <<client, configured, nextId, storage, now, served, orphaned, dangling, wizard, viewer>>

----------------------------------------------------------------------------
(* delete-document ("delete") and its user-scoped variant ("deleteScoped") *)

\* Variant: the row is deleted with no removal of its object
ThenDeleteRowOnly(r, doc) == Await(r, "deleteRow", "db.delete")

\* if (doc.file_path) the object is removed first
ThenDelete(r, doc) ==
    IF doc.file_path # NoKey
    THEN Await(WithKey(r, doc.file_path), "remove", "storage.remove")
    ELSE Await(r, "deleteRow", "db.delete")

DeleteSelected(r, doc) ==
    IF r.ep = "deleteScoped"
    THEN IF doc = NoRow THEN Fail(r, 404, "Document not found or access denied")
         ELSE ThenDelete(r, doc)
    ELSE IF doc = NoRow THEN Fail(r, 404, "Document not found")
    ELSE IF ~Owns(r.user, doc) THEN Fail(r, 403, "You do not own this document")
    ELSE ThenDelete(r, doc)

DeleteSelect(s, o) ==
    /\ Quiet
    /\ reqs[s].pc = "select" /\ reqs[s].ep \in {"delete", "deleteScoped"}
    /\ LET r == Reported(reqs[s], "db", o) IN
       reqs' = [reqs EXCEPT ![s] =
          DeleteSelected(r, SelectOne(rows, r.docId, r.user, r.ep = "deleteScoped", o))]
    /\ UNCHANGED <<client, configured, rows, nextId, storage, now, served, orphaned, dangling, wizard, viewer>>

\* Variant: a storage error ends the request
RemovedStrict(r, o) ==
    IF o = "error" THEN Fail(r, 500, StorageError) ELSE Await(r, "deleteRow", "db.delete")

\* if (storageError) console.error(...); the row deletion is issued either way
Removed(r, o) == Await(r, "deleteRow", "db.delete")

\* storage.remove([doc.file_path])
DeleteRemove(s, o) ==
    /\ Quiet
    /\ reqs[s].pc = "remove"
    /\ storage' = IF o = "ok" THEN storage \ {reqs[s].key} ELSE storage
    /\ reqs' = [reqs EXCEPT ![s] = Removed(Reported(reqs[s], "storage", o), o)]
    /\ UNCHANGED <<client, configured, rows, nextId, now, served, orphaned, dangling, wizard, viewer>>

RowDeleted(r, o) ==
    IF o = "error" THEN Fail(r, 500, DbError) ELSE Respond(r, 200, "success", TRUE)

\* .delete().eq('id', docId)
DeleteRow(s, o) ==
    /\ Quiet
    /\ reqs[s].pc = "deleteRow"
    /\ LET r == Reported(reqs[s], "db", o) IN
       /\ rows' = IF o = "ok" THEN WithoutRow(rows, r.docId) ELSE rows
       /\ dangling' = IF o = "error" /\ r.docId \in DOMAIN rows /\ r.key # NoKey
                         /\ r.key \notin storage /\ "storage" \notin r.errors
                      THEN dangling \cup {r.docId} ELSE dangling
       /\ reqs' = [reqs EXCEPT ![s] = RowDeleted(r, o)]
    /\ UNCHANGED <<client, configured, nextId, storage, now, served, orphaned, wizard, viewer>>

----------------------------------------------------------------------------
(* get-document-url ("getUrl": owner or public) and its owner-scoped variant
   ("getUrlScoped") *)

UrlSelected(r, doc) ==
    IF r.ep = "getUrlScoped"
    THEN IF doc = NoRow THEN Fail(r, 404, "Document not found or access denied")
         ELSE IF doc.visibility = "public"
              THEN Respond(r, 200, "url", PublicUrl(doc.file_path))
         ELSE Await(WithKey(r, doc.file_path), "sign", "storage.createSignedUrl")
    ELSE IF doc = NoRow THEN Fail(r, 404, "Document not found")
    ELSE IF ~MayRead(r.user, doc) THEN Fail(r, 403, "Access denied")
    ELSE Await(WithKey(r, doc.file_path), "sign", "storage.createSignedUrl")

UrlSelect(s, o) ==
    /\ Quiet
    /\ reqs[s].pc = "select" /\ reqs[s].ep \in {"getUrl", "getUrlScoped"}
    /\ LET r == Reported(reqs[s], "db", o) IN
       reqs' = [reqs EXCEPT ![s] =
          UrlSelected(r, SelectOne(rows, r.docId, r.user, r.ep = "getUrlScoped", o))]
    /\ UNCHANGED <<client, configured, rows, nextId, storage, now, served, orphaned, dangling, wizard, viewer>>

Signed(r, o, url) ==
    IF o = "error" THEN Fail(r, 500, StorageError) ELSE Respond(r, 200, "url", url)

\* storage.createSignedUrl(doc.file_path, 60 * 10): an object that is not there is an error
UrlSign(s, o) ==
    /\ Quiet
    /\ reqs[s].pc = "sign"
    /\ LET res == IF o = "ok" /\ reqs[s].key \in storage THEN "ok" ELSE "error"
           r == Reported(reqs[s], "storage", res)
       IN reqs' = [reqs EXCEPT ![s] = Signed(r, res, SignedUrl(r.key))]
    /\ UNCHANGED <<client, configured, rows, nextId, storage, now, served, orphaned, dangling, wizard, viewer>>

----------------------------------------------------------------------------
(* The response reaches the client and the invocation ends *)

Deliver(s) ==
    /\ reqs[s].pc = "done"
    /\ reqs' = [reqs EXCEPT ![s] = Idle]
    /\ UNCHANGED <<client, configured, rows, nextId, storage, now, served, orphaned, dangling, wizard, viewer>>


----------------------------------------------------------------------------
(* The client: DocumentContext.tsx. Its calls go from the browser to the table
   and the bucket; `o` is how a call ends for the caller: "ok", "error" (an
   error in the result), "throw" (the call's promise rejects), or withTimeout's
   timer firing first ("timeout": the call never takes effect, "late": it takes
   effect after the timer). The access policies of the table are not part of
   the repository: a write they refuse is an "error". *)

ClientOutcomes == {"ok", "error", "throw", "timeout", "late"}

\* The call took effect at the backend
Applied(o) == o \in {"ok", "late"}

\* withTimeout rejected
TimedOut(o) == o \in {"timeout", "late"}

\* `await withTimeout(call, ...)` throws: the timer fired or the call rejected
Rejects(o) == TimedOut(o) \/ o = "throw"

\* The `updates` arguments of updateDocument: any Partial<DocumentFile>
UpdateArgs ==
    {[name |-> n, visibility |-> v, user_id |-> x] :
        n \in {Undef, "b"}, v \in {Undef, "public", "private"}, x \in {Undef, "u2"}}

\* The `updates` DocumentsPage passes: saveRename's { name } and
\* handleToggleVisibility's { visibility }
PageUpdates ==
    {[name |-> "b", visibility |-> Undef, user_id |-> Undef]}
    \cup {[name |-> Undef, visibility |-> v, user_id |-> Undef] : v \in {"public", "private"}}

FallbackDoc(id, name, visibility) ==
    [id |-> id, user_id |-> "fallback-user", name |-> name, size |-> <<>>,
     visibility |-> visibility, file_path |-> NoKey, created_at |-> 0,
     public_url |-> <<"#">>]

fallbackDocuments ==
    <<FallbackDoc(1, "Resume_Frontend_Engineer.pdf", "public"),
      FallbackDoc(2, "Cover_Letter_Startup.pdf", "private"),
      FallbackDoc(3, "Design_Portfolio_2023.pdf", "public")>>

\* { ...d, ...data }
Merge(d, p) ==
    [d EXCEPT !.name = IF p.name = Undef THEN @ ELSE p.name,
              !.visibility = IF p.visibility = Undef THEN @ ELSE p.visibility,
              !.user_id = IF p.user_id = Undef THEN @ ELSE p.user_id]

\* docs.map(d => d.id === docId ? { ...d, ...data } : d)
MergeInto(docs, docId, p) ==
    [i \in DOMAIN docs |-> IF docs[i].id = docId THEN Merge(docs[i], p) ELSE docs[i]]

\* docs.filter(d => d.id !== docId)
Without(docs, docId) == SelectSeq(docs, LAMBDA d : d.id # docId)

\* documents.find(d => d.id === docId)
Found(docs, docId) == \E i \in DOMAIN docs : docs[i].id = docId
Find(docs, docId) == docs[CHOOSE i \in DOMAIN docs : docs[i].id = docId]

ClientCall(c, pc, call) == [c EXCEPT !.pc = pc, !.calls = Append(@, call)]

\* An operation of the provider is called
Begin(c) == [c EXCEPT !.calls = <<>>, !.errors = {}, !.thrown = FALSE, !.docId = NoDoc,
                      !.payload = NoPayload, !.size = <<>>, !.key = NoKey,
                      !.op = "none", !.session = FALSE, !.url = NoUrl,
                      !.result = "", !.data = NoPayload, !.row = NoDoc,
                      !.userId = NoUser]

\* resetUpload()
ResetUpload(c) ==
    [c EXCEPT !.uploadFile = NoFile, !.uploadName = "", !.uploadVisibility = "private",
              !.uploadError = Null]

\* closeUpload(): the token moves on, so that an upload in flight no longer
\* touches the dialog
CloseUpload(c) ==
    [ResetUpload(c) EXCEPT !.uploadToken = @ + 1, !.isUploadOpen = FALSE,
                           !.uploadBusy = FALSE]

\* Variant: the token is not compared
UploadReturnedUnchecked(c) ==
    [(IF c.thrown THEN [c EXCEPT !.uploadError = "Upload failed."] ELSE CloseUpload(c))
        EXCEPT !.uploadBusy = FALSE, !.myToken = 0]

\* handleUploadSubmit after `await addDocument`: try, catch and finally, each
\* under `uploadTokenRef.current === myToken`
UploadReturned(c) ==
    LET d == IF c.uploadToken # c.myToken THEN c
             ELSE IF c.thrown THEN [c EXCEPT !.uploadError = "Upload failed."]
             ELSE CloseUpload(c)
    IN [d EXCEPT !.uploadBusy = IF d.uploadToken = c.myToken THEN FALSE ELSE @,
                 !.myToken = 0]

\* setRowBusyId(doc.id) at the start of a row handler
RowCalled(c, id) == [c EXCEPT !.row = id, !.rowBusyId = id]

\* setRowBusyId(null) once the row handler's await is over
RowReturned(c) ==
    IF c.pc = "idle" /\ c.row # NoDoc THEN [c EXCEPT !.row = NoDoc, !.rowBusyId = NoDoc]
    ELSE c

\* The operation returned or threw; a handleUploadSubmit or a row handler
\* awaiting it runs on
Return(c, thrown) ==
    LET d == [c EXCEPT !.pc = "idle", !.thrown = thrown] IN
    RowReturned(IF d.myToken # 0 THEN UploadReturned(d) ELSE d)

\* fetchDocuments(profile?.id), up to its await
FetchCalled(c) ==
    IF ~c.backend \/ c.profile = NoUser
    THEN [c EXCEPT !.documents = IF ~c.backend THEN fallbackDocuments ELSE <<>>,
                   !.error = Null, !.loading = FALSE]
    ELSE ClientCall([c EXCEPT !.loading = TRUE, !.error = Null, !.userId = c.profile],
                    "fetching", "db.select")

FetchDocuments ==
    /\ client.pc = "idle"
    /\ served < MaxServed
    /\ served' = served + 1
    /\ client' = FetchCalled(Begin(client))
    /\ UNCHANGED <<configured, rows, nextId, storage, now, reqs, orphaned, dangling, wizard, viewer>>

\* The browser of u1 once DocumentProvider's effect has called fetchDocuments
InitFetching == InitServer /\ client = FetchCalled(Mounted(TRUE, "u1")) /\ OtherPages

\* the query settled: setDocuments(enhancedDocs), or the catch with its
\* console.error and setError; finally setLoading(false)
Fetched(c, o, docs) ==
    Return([c EXCEPT !.documents = IF o = "ok" THEN docs ELSE @,
                     !.error = IF o = "ok" THEN @ ELSE "Failed to fetch documents.",
                     !.errors = IF o = "ok" THEN @ ELSE @ \cup {"fetch"},
                     !.loading = FALSE], FALSE)

FetchSettle(o) ==
    /\ client.pc = "fetching"
    /\ client' = Fetched(client, o, ListDocuments(rows, client.userId))
    /\ UNCHANGED <<configured, rows, nextId, storage, now, reqs, served, orphaned, dangling, wizard, viewer>>

\* useProfile() hands the provider another profile (another user signed in,
\* or none after a logout): the effect on `profile` calls fetchDocuments(profile?.id)
ProfileEffect(p) ==
    /\ client.pc = "idle"
    /\ served < MaxServed
    /\ p # client.profile
    /\ served' = served + 1
    /\ client' = FetchCalled([Begin(client) EXCEPT !.profile = p])
    /\ UNCHANGED <<configured, rows, nextId, storage, now, reqs, orphaned, dangling, wizard, viewer>>

\* Variant: the safety timer leaves loading alone
TimerFiredIdle(c) == c

\* The safety timeout of the effect on `loading`: setLoading(false)
TimerFired(c) == [c EXCEPT !.loading = FALSE]

\* The effect arms the timer whenever loading is true and clears it when
\* loading changes: it fires, 5 seconds on, only if loading is still true
SafetyTimer ==
    /\ client.loading
    /\ client' = TimerFired(client)
    /\ UNCHANGED <<configured, rows, nextId, storage, now, reqs, served, orphaned, dangling, wizard, viewer>>

\* updateDocument(docId, updates), up to its await: .update(updates).eq('id', docId)
UpdateCalled(c, docId, updates) ==
    IF ~c.backend THEN [c EXCEPT !.documents = MergeInto(@, docId, updates)]
    ELSE ClientCall([c EXCEPT !.error = Null, !.docId = docId, !.payload = updates],
                    "updating", "db.update")

UpdateDocument(docId, updates) ==
    /\ client.pc = "idle"
    /\ served < MaxServed
    /\ served' = served + 1
    /\ client' = UpdateCalled(Begin(client), docId, updates)
    /\ UNCHANGED <<configured, rows, nextId, storage, now, reqs, orphaned, dangling, wizard, viewer>>

\* if (error) throw error; setDocuments(docs.map(...))
ClientUpdated(c, o, data) ==
    IF o = "ok" THEN Return([c EXCEPT !.documents = MergeInto(@, c.docId, data)], FALSE)
    ELSE Return(c, TRUE)

\* The update reaches the table (or fails to): .update(updates).eq('id', docId)
\* .select().single() answers with the row as it is right after the write; no
\* row to return is an error. The answer is then on its way to the browser.
UpdateLands(o) ==
    /\ client.pc = "updating"
    /\ LET hit == client.docId \in DOMAIN rows
           res == IF o = "ok" /\ ~hit THEN "error" ELSE o
       IN /\ rows' = IF Applied(o) /\ hit
                     THEN [rows EXCEPT ![client.docId] = ApplyUpdate(@, client.payload)]
                     ELSE rows
          /\ client' = [client EXCEPT !.pc = "updated", !.result = res,
                                      !.data = IF res = "ok" THEN rows'[client.docId]
                                               ELSE NoPayload]
    /\ UNCHANGED <<configured, nextId, storage, now, reqs, served, orphaned, dangling, wizard, viewer>>

\* The answer arrives (or the timer has fired)
UpdateSettle ==
    /\ client.pc = "updated"
    /\ client' = [ClientUpdated(client, client.result, client.data)
                     EXCEPT !.result = "", !.data = NoPayload]
    /\ UNCHANGED <<configured, rows, nextId, storage, now, reqs, served, orphaned, dangling, wizard, viewer>>

\* While an operation awaits its call another handler of the page runs: the
\* operation at hand and the waiting one change places.
Switch ==
    /\ client.pc # "idle" \/ client.waiting.pc # "idle"
    /\ client' = [f \in DOMAIN client |->
                     IF f = "waiting" THEN [g \in DOMAIN NoOp |-> client[g]]
                     ELSE IF f \in DOMAIN NoOp THEN client.waiting[f]
                     ELSE client[f]]
    /\ UNCHANGED <<configured, rows, nextId, storage, now, reqs, served, orphaned, dangling, wizard, viewer>>

\* deleteDocument(docId), up to its first await: the document is looked up in the
\* loaded list and its object removed first
DeleteCalled(c, docId) ==
    IF ~c.backend THEN [c EXCEPT !.documents = Without(@, docId)]
    ELSE IF ~Found(c.documents, docId) THEN [c EXCEPT !.error = Null]
    ELSE ClientCall([c EXCEPT !.error = Null, !.docId = docId,
                              !.key = Find(c.documents, docId).file_path],
                    "removing", "storage.remove")

DeleteDocument(docId) ==
    /\ client.pc = "idle"
    /\ served < MaxServed
    /\ served' = served + 1
    /\ client' = DeleteCalled(Begin(client), docId)
    /\ UNCHANGED <<configured, rows, nextId, storage, now, reqs, orphaned, dangling, wizard, viewer>>

\* Variant: a storageError ends deleteDocument as a rejection does
ClientRemovedStrict(c, o) ==
    IF Rejects(o) THEN Return([c EXCEPT !.errors = @ \cup {"rejected"}], TRUE)
    ELSE IF o = "error" THEN Return([c EXCEPT !.errors = @ \cup {"storage"}], TRUE)
    ELSE ClientCall(c, "deleting", "db.delete")

\* The await rejecting ends deleteDocument (there is no try around it); a
\* storageError in the result is logged and the row deletion is issued
ClientRemoved(c, o) ==
    IF Rejects(o) THEN Return([c EXCEPT !.errors = @ \cup {"rejected"}], TRUE)
    ELSE ClientCall(IF o = "error" THEN [c EXCEPT !.errors = @ \cup {"storage"}] ELSE c,
                    "deleting", "db.delete")

DeleteRemoveSettle(o) ==
    /\ client.pc = "removing"
    /\ storage' = IF Applied(o) THEN storage \ {client.key} ELSE storage
    /\ client' = ClientRemoved(client, o)
    /\ UNCHANGED <<configured, rows, nextId, now, reqs, served, orphaned, dangling, wizard, viewer>>

\* if (dbError) throw dbError; setDocuments(docs.filter(...))
ClientRowDeleted(c, o) ==
    IF o = "ok" THEN Return([c EXCEPT !.documents = Without(@, c.docId)], FALSE)
    ELSE Return(c, TRUE)

DeleteRowSettle(o) ==
    /\ client.pc = "deleting"
    /\ rows' = IF Applied(o) THEN WithoutRow(rows, client.docId) ELSE rows
    /\ dangling' = IF ~Applied(o) /\ client.docId \in DOMAIN rows /\ client.key # NoKey
                       /\ client.key \notin storage /\ "storage" \notin client.errors
                   THEN dangling \cup {client.docId} ELSE dangling
    /\ client' = ClientRowDeleted(client, o)
    /\ UNCHANGED <<configured, nextId, storage, now, reqs, served, orphaned, wizard, viewer>>

----------------------------------------------------------------------------
(* resolveDocUrl of DocumentsPage: the cached public URL, else the serverless
   endpoint under a 15-second abort timer, else the direct signed-URL call *)

\* What `fetch('/api/get-document-url')` comes to: a 200 with a url, a 200 with
\* none (or a body that is no JSON), a 404, another status, a network error,
\* or the abort
UrlResponses == {"url", "nourl", "404", "refused", "throw", "timeout"}

\* return url
Resolved(c, url) == Return([c EXCEPT !.url = url], FALSE)

\* Fallback: if (!supabase) return doc.public_url || null; else createSignedUrl
Direct(c) ==
    IF ~c.backend THEN Resolved(c, Find(c.documents, c.docId).public_url)
    ELSE ClientCall(c, "signing", "storage.createSignedUrl")

\* Variant: the request and the direct call are started together
ResolveCalledRacing(c, doc, session) ==
    LET d == [c EXCEPT !.op = "resolve", !.session = session, !.docId = doc.id,
                       !.key = doc.file_path]
    IN IF doc.visibility = "public" /\ doc.public_url # NoUrl THEN Resolved(d, doc.public_url)
       ELSE IF session
            THEN ClientCall(ClientCall(d, "resolving", "fetch"),
                            "resolving", "storage.createSignedUrl")
       ELSE Direct(d)

\* resolveDocUrl(doc), up to its first await
ResolveCalled(c, doc, session) ==
    LET d == [c EXCEPT !.op = "resolve", !.session = session, !.docId = doc.id,
                       !.key = doc.file_path]
    IN IF doc.visibility = "public" /\ doc.public_url # NoUrl THEN Resolved(d, doc.public_url)
       ELSE IF session THEN ClientCall(d, "resolving", "fetch")
       ELSE Direct(d)

ResolveDocUrl(i, session) ==
    /\ client.pc = "idle"
    /\ served < MaxServed
    /\ i \in DOMAIN client.documents
    /\ served' = served + 1
    /\ client' = ResolveCalled(Begin(client), client.documents[i], session)
    /\ UNCHANGED <<configured, rows, nextId, storage, now, reqs, orphaned, dangling, wizard, viewer>>

\* Variant: what the endpoint answered is final
UrlFetchedNoFallback(c, resp) ==
    IF resp = "url" THEN Resolved(c, SignedUrl(c.key))
    ELSE Resolved([c EXCEPT !.errors = @ \cup {resp}], NoUrl)

\* The fetch settled: `resp.ok && json.url` returns the url; a 404, another
\* status, a body with no url and the catch all fall through to the fallback
UrlFetched(c, resp) ==
    IF resp = "url" THEN Resolved(c, SignedUrl(c.key))
    ELSE Direct([c EXCEPT !.errors = @ \cup {resp}])

ResolveSettle(resp) ==
    /\ client.pc = "resolving"
    /\ client' = UrlFetched(client, resp)
    /\ UNCHANGED <<configured, rows, nextId, storage, now, reqs, served, orphaned, dangling, wizard, viewer>>

\* if (error) throw error; return data?.signedUrl || null; the catch returns null
DirectSigned(c, o) ==
    IF o = "ok" THEN Resolved(c, SignedUrl(c.key))
    ELSE Resolved([c EXCEPT !.errors = @ \cup {"sign"}], NoUrl)

\* createSignedUrl(doc.file_path, 60 * 10): an object that is not there is an error
SignSettle(o) ==
    /\ client.pc = "signing"
    /\ client' = DirectSigned(client, IF o = "ok" /\ client.key \notin storage THEN "error" ELSE o)
    /\ UNCHANGED <<configured, rows, nextId, storage, now, reqs, served, orphaned, dangling, wizard, viewer>>

\* The provider while the signed-in user changes
NextProfile ==
    \/ FetchDocuments
    \/ \E p \in Users \cup {NoUser} : ProfileEffect(p)
    \/ \E o \in ClientOutcomes : FetchSettle(o)
    \/ Switch

----------------------------------------------------------------------------
(* The row handlers of DocumentsPage. A row's buttons are disabled while
   rowBusyId is the row's id; the confirmation dialog of a delete has its
   button disabled while rowBusyId is set and stays over the rows until the
   delete has returned. *)

\* executeDelete is awaiting deleteDocument
Deleting(c) ==
    \/ c.pc \in {"removing", "deleting"} /\ c.row # NoDoc
    \/ c.waiting.pc \in {"removing", "deleting"} /\ c.waiting.row # NoDoc

\* A button of row i can be clicked
RowEnabled(i) ==
    /\ client.pc = "idle"
    /\ served < MaxServed
    /\ i \in DOMAIN client.documents
    /\ client.rowBusyId # client.documents[i].id
    /\ ~Deleting(client)

\* handleView(doc) and handleDownload(doc), up to `await resolveDocUrl(doc)`
HandleView(i, session) ==
    /\ RowEnabled(i)
    /\ served' = served + 1
    /\ LET doc == client.documents[i] IN
       client' = RowReturned(ResolveCalled(RowCalled(Begin(client), doc.id), doc, session))
    /\ UNCHANGED <<configured, rows, nextId, storage, now, reqs, orphaned, dangling, wizard, viewer>>

\* saveRename(doc) with a new name in the field
SaveRename(i) ==
    /\ RowEnabled(i)
    /\ client.documents[i].name # "b"
    /\ served' = served + 1
    /\ LET doc == client.documents[i] IN
       client' = RowReturned(UpdateCalled(RowCalled(Begin(client), doc.id), doc.id,
                                         [name |-> "b", visibility |-> Undef, user_id |-> Undef]))
    /\ UNCHANGED <<configured, rows, nextId, storage, now, reqs, orphaned, dangling, wizard, viewer>>

HandleToggleVisibility(i, isPublic) ==
    /\ RowEnabled(i)
    /\ served' = served + 1
    /\ LET doc == client.documents[i]
           nextVisibility == IF isPublic THEN "public" ELSE "private"
       IN client' = RowReturned(UpdateCalled(RowCalled(Begin(client), doc.id), doc.id,
                      [name |-> Undef, visibility |-> nextVisibility, user_id |-> Undef]))
    /\ UNCHANGED <<configured, rows, nextId, storage, now, reqs, orphaned, dangling, wizard, viewer>>

\* executeDelete() with docToDelete the document of row i
ExecuteDelete(i) ==
    /\ RowEnabled(i)
    /\ client.rowBusyId = NoDoc
    /\ served' = served + 1
    /\ LET doc == client.documents[i] IN
       client' = RowReturned(DeleteCalled(RowCalled(Begin(client), doc.id), doc.id))
    /\ UNCHANGED <<configured, rows, nextId, storage, now, reqs, orphaned, dangling, wizard, viewer>>

\* The browser of u1, who uploaded a private and a public document earlier,
\* once DocumentProvider's effect has called fetchDocuments
InitRows ==
    /\ configured \in BOOLEAN
    /\ rows = [d \in {1, 2} |->
                 IF d = 1 THEN SeedRow("u1", "private", d)
                 ELSE [SeedRow("u1", "public", d) EXCEPT !.file_path = <<"u1", 1, "f">>]]
    /\ nextId = 3
    /\ storage = {SeedKey("u1"), <<"u1", 1, "f">>}
    /\ now = 2
    /\ reqs = [s \in Slots |-> Idle]
    /\ served = 0
    /\ orphaned = {}
    /\ dangling = {}
    /\ client = FetchCalled(Mounted(TRUE, "u1"))
    /\ OtherPages

NextRows ==
    \/ \E o \in ClientOutcomes : FetchSettle(o)
    \/ \E i \in 1..3, session \in BOOLEAN : HandleView(i, session)
    \/ \E i \in 1..3 : SaveRename(i)
    \/ \E i \in 1..3, isPublic \in BOOLEAN : HandleToggleVisibility(i, isPublic)
    \/ \E i \in 1..3 : ExecuteDelete(i)
    \/ \E resp \in UrlResponses : ResolveSettle(resp)
    \/ \E o \in {"ok", "error", "throw"} : SignSettle(o)
    \/ \E o \in ClientOutcomes : UpdateLands(o)
    \/ UpdateSettle
    \/ \E o \in ClientOutcomes : DeleteRemoveSettle(o)
    \/ \E o \in ClientOutcomes : DeleteRowSettle(o)
    \/ Switch

----------------------------------------------------------------------------
(* The upload dialog of DocumentsPage and DocumentContext.addDocument *)

MAX_BYTES == 15 * 1024 * 1024

\* The files a user picks: small, exactly at the limit, one byte over it
PickFiles ==
    {[hasFile |-> TRUE, filename |-> "f", size |-> z] : z \in {2048, MAX_BYTES, MAX_BYTES + 1}}

\* `${(file.size / 1024).toFixed(1)} KB` as <<tenths, unit>>
ClientSizeLabel(size) == <<(size * 10 + 512) \div 1024, "KB">>

\* openUpload()
OpenUpload ==
    /\ ~client.isUploadOpen
    /\ served < MaxServed
    /\ served' = served + 1
    /\ client' = [ResetUpload(client) EXCEPT !.isUploadOpen = TRUE]
    /\ UNCHANGED <<configured, rows, nextId, storage, now, reqs, orphaned, dangling, wizard, viewer>>

\* The Cancel button and the dialog's onClose
ClosesUpload ==
    /\ client.isUploadOpen
    /\ client' = CloseUpload(client)
    /\ UNCHANGED <<configured, rows, nextId, storage, now, reqs, served, orphaned, dangling, wizard, viewer>>

\* onPickFile(file)
OnPickFile(file) ==
    /\ client.isUploadOpen
    /\ client' = [client EXCEPT !.uploadError = Null, !.uploadFile = file,
                                !.uploadName = IF file # NoFile /\ Trim(@) = ""
                                               THEN file.filename ELSE @]
    /\ UNCHANGED <<configured, rows, nextId, storage, now, reqs, served, orphaned, dangling, wizard, viewer>>

\* The name input (disabled while uploadBusy) and the visibility switch
EditUpload(name, visibility) ==
    /\ client.isUploadOpen
    /\ ~client.uploadBusy \/ name = client.uploadName
    /\ client' = [client EXCEPT !.uploadName = name, !.uploadVisibility = visibility]
    /\ UNCHANGED <<configured, rows, nextId, storage, now, reqs, served, orphaned, dangling, wizard, viewer>>

\* addDocument(file, details), up to its first await
AddCalled(c, file, details, t) ==
    IF ~c.backend \/ c.profile = NoUser
    THEN Return([c EXCEPT !.documents =
                    <<[id |-> 1000 + t, user_id |-> "fallback-user", name |-> details.name,
                       size |-> ClientSizeLabel(file.size),
                       visibility |-> OrElse(details.visibility, "private"),
                       file_path |-> NoKey, created_at |-> t, public_url |-> NoUrl]>> \o @],
                FALSE)
    ELSE ClientCall([c EXCEPT !.error = Null,
                              !.key = FilePath(c.profile, t, file.filename),
                              !.payload = [name |-> details.name,
                                           visibility |-> OrElse(details.visibility, "private"),
                                           user_id |-> c.profile],
                              !.size = ClientSizeLabel(file.size)],
                    "storing", "storage.upload")

\* Variant: the size of the file is not looked at
SubmitAnySize(c, t) ==
    LET name == OrElse(Trim(c.uploadName), c.uploadFile.filename) IN
    IF c.uploadFile = NoFile THEN [c EXCEPT !.uploadError = "Pick a file to upload."]
    ELSE IF name = "" THEN [c EXCEPT !.uploadError = "Enter a document name."]
    ELSE AddCalled(Begin([c EXCEPT !.uploadError = Null, !.myToken = c.uploadToken + 1,
                                   !.uploadToken = c.uploadToken + 1, !.uploadBusy = TRUE]),
                   c.uploadFile, [name |-> name, visibility |-> c.uploadVisibility], t)

\* handleUploadSubmit(e), up to `await addDocument`
Submit(c, t) ==
    LET name == OrElse(Trim(c.uploadName), c.uploadFile.filename) IN
    IF c.uploadFile = NoFile THEN [c EXCEPT !.uploadError = "Pick a file to upload."]
    ELSE IF name = "" THEN [c EXCEPT !.uploadError = "Enter a document name."]
    ELSE IF c.uploadFile.size > MAX_BYTES
         THEN [c EXCEPT !.uploadError = "File too large. Max 15MB."]
    ELSE AddCalled(Begin([c EXCEPT !.uploadError = Null, !.myToken = c.uploadToken + 1,
                                   !.uploadToken = c.uploadToken + 1, !.uploadBusy = TRUE]),
                   c.uploadFile, [name |-> name, visibility |-> c.uploadVisibility], t)

\* The Upload button is enabled once a file is picked; one operation of the
\* provider is in flight at a time. Date.now() reads `t`.
HandleUploadSubmit(t) ==
    /\ client.isUploadOpen /\ client.uploadFile # NoFile
    /\ client.pc = "idle"
    /\ served < MaxServed
    /\ t \in {now, now + 1} /\ t <= MaxNow
    /\ served' = served + 1
    /\ client' = Submit(client, t)
    /\ now' = IF client'.pc = "storing" THEN t ELSE now
    /\ UNCHANGED <<configured, rows, nextId, storage, reqs, orphaned, dangling, wizard, viewer>>

\* if (uploadError) throw uploadError; else the insert is issued
ClientStored(c, o) ==
    IF o = "ok" THEN ClientCall(c, "inserting", "db.insert") ELSE Return(c, TRUE)

\* The object is written unless its key is taken (no upsert)
AddStoreSettle(o) ==
    /\ client.pc = "storing"
    /\ LET free == StoreAccepts(storage, client.key) IN
       /\ storage' = IF Applied(o) /\ free THEN storage \cup {client.key} ELSE storage
       /\ orphaned' = IF o = "late" /\ free THEN orphaned \cup {client.key} ELSE orphaned
       /\ client' = ClientStored(client, IF o = "ok" /\ ~free THEN "error" ELSE o)
    /\ UNCHANGED <<configured, rows, nextId, now, reqs, served, dangling, wizard, viewer>>

\* if (insertError) throw insertError; await fetchDocuments(profile.id)
ClientInserted(c, o) == IF o = "ok" THEN FetchCalled(c) ELSE Return(c, TRUE)

AddInsertSettle(o) ==
    /\ client.pc = "inserting"
    /\ Applied(o) => nextId <= MaxDocs
    /\ rows' = IF Applied(o) THEN WithRow(rows, nextId, NewRow(client, nextId)) ELSE rows
    /\ nextId' = IF Applied(o) THEN nextId + 1 ELSE nextId
    /\ orphaned' = IF ~Applied(o) THEN orphaned \cup {client.key} ELSE orphaned
    /\ client' = ClientInserted(client, o)
    /\ UNCHANGED <<configured, storage, now, reqs, served, dangling, wizard, viewer>>

----------------------------------------------------------------------------

\* A request arrives at one of the endpoints `eps`
Arrive(eps) ==
    /\ Quiet
    /\ served < MaxServed
    /\ \E s \in Slots, ep \in eps : \E a \in Arrivals(ep) : Receive(s, ep, a[1], a[2])

\* auth.getUser resolves for the invocation in slot s, whatever its body
Authenticates(s) ==
    /\ reqs[s].pc = "getUser"
    /\ \E b \in BodiesOf(reqs[s].ep) : Authenticate(s, b)

\* parseMultipart settles for the invocation in slot s, whatever the upload
UploadParses(s, files) ==
    /\ reqs[s].pc = "parse"
    /\ \E f \in files, n \in FieldNames, v \in FieldVisibilities, t \in {now, now + 1},
          o \in {"ok", "throw"} : UploadParse(s, f, n, v, t, o)

NextUpdate ==
    \/ Arrive({"update", "updateScoped"})
    \/ \E s \in Slots : Authenticates(s)
    \/ \E s \in Slots, o \in Outcomes : UpdateSelect(s, o)
    \/ \E s \in Slots, o \in Outcomes : UpdateWrite(s, o)
    \/ \E s \in Slots : Deliver(s)

NextStore ==
    \/ Arrive({"upload", "delete", "deleteScoped"})
    \/ \E s \in Slots : Authenticates(s)
    \/ \E s \in Slots : UploadParses(s, Files)
    \/ \E s \in Slots, o \in Outcomes : UploadStore(s, o)
    \/ \E s \in Slots, o \in Outcomes : UploadInsert(s, o)
    \/ \E s \in Slots, o \in Outcomes : DeleteSelect(s, o)
    \/ \E s \in Slots, o \in Outcomes : DeleteRemove(s, o)
    \/ \E s \in Slots, o \in Outcomes : DeleteRow(s, o)
    \/ \E s \in Slots : Deliver(s)
    \/ FetchDocuments
    \/ \E o \in ClientOutcomes : FetchSettle(o)
    \/ \E d \in DocIds : DeleteDocument(d)
    \/ \E o \in ClientOutcomes : DeleteRemoveSettle(o)
    \/ \E o \in ClientOutcomes : DeleteRowSettle(o)

\* The two upload handlers, with bodies of any size
NextUpload ==
    \/ Arrive(Uploads)
    \/ \E s \in Slots : Authenticates(s)
    \/ \E s \in Slots : UploadParses(s, SentFiles)
    \/ \E s \in Slots, o \in Outcomes : UploadStore(s, o)
    \/ \E s \in Slots, o \in Outcomes : UploadInsert(s, o)
    \/ \E s \in Slots : Deliver(s)

NextRead ==
    \/ Arrive({"list", "getUrl", "getUrlScoped"})
    \/ \E s \in Slots : Authenticates(s)
    \/ \E s \in Slots, o \in Outcomes : ListSelect(s, o)
    \/ \E s \in Slots, o \in Outcomes : UrlSelect(s, o)
    \/ \E s \in Slots, o \in Outcomes : UrlSign(s, o)
    \/ \E s \in Slots : Deliver(s)
    \/ FetchDocuments
    \/ \E o \in ClientOutcomes : FetchSettle(o)

NextClient ==
    \/ FetchDocuments
    \/ \E o \in ClientOutcomes : FetchSettle(o)
    \/ \E d \in DocIds, u \in UpdateArgs : UpdateDocument(d, u)
    \/ \E o \in ClientOutcomes : UpdateLands(o)
    \/ UpdateSettle
    \/ \E d \in DocIds : DeleteDocument(d)
    \/ \E o \in ClientOutcomes : DeleteRemoveSettle(o)
    \/ \E o \in ClientOutcomes : DeleteRowSettle(o)

\* The upload dialog: what the user does to it, and the upload it starts
NextForm ==
    \/ OpenUpload
    \/ ClosesUpload
    \/ \E f \in PickFiles \cup {NoFile} : OnPickFile(f)
    \/ \E n \in {" ", "n"}, v \in {"public", "private"} : EditUpload(n, v)
    \/ \E t \in {now, now + 1} : HandleUploadSubmit(t)
    \/ \E o \in ClientOutcomes : AddStoreSettle(o)
    \/ \E o \in ClientOutcomes : AddInsertSettle(o)
    \/ \E o \in ClientOutcomes : FetchSettle(o)

\* Updates and deletions of a document whose list has been asked for, from
\* the browser and through the update endpoint, two at a time
NextRace ==
    \/ Arrive({"update"})
    \/ \E s \in Slots : Authenticates(s)
    \/ \E s \in Slots, o \in Outcomes : UpdateSelect(s, o)
    \/ \E s \in Slots, o \in Outcomes : UpdateWrite(s, o)
    \/ \E s \in Slots : Deliver(s)
    \/ \E o \in ClientOutcomes : FetchSettle(o)
    \/ \E i \in DOMAIN client.documents, u \in PageUpdates :
          UpdateDocument(client.documents[i].id, u)
    \/ \E o \in ClientOutcomes : UpdateLands(o)
    \/ UpdateSettle
    \/ \E i \in DOMAIN client.documents : DeleteDocument(client.documents[i].id)
    \/ \E o \in ClientOutcomes : DeleteRemoveSettle(o)
    \/ \E o \in ClientOutcomes : DeleteRowSettle(o)
    \/ Switch

\* The documents are loaded and their URLs resolved
NextResolve ==
    \/ FetchDocuments
    \/ \E o \in ClientOutcomes : FetchSettle(o)
    \/ \E i \in 1..3, session \in BOOLEAN : ResolveDocUrl(i, session)
    \/ \E resp \in UrlResponses : ResolveSettle(resp)
    \/ \E o \in {"ok", "error", "throw"} : SignSettle(o)

Next ==
    \/ Arrive(Endpoints)
    \/ \E s \in Slots : Authenticates(s)
    \/ \E s \in Slots, o \in Outcomes : ListSelect(s, o)
    \/ \E s \in Slots : UploadParses(s, SentFiles)
    \/ \E s \in Slots, o \in Outcomes : UploadStore(s, o)
    \/ \E s \in Slots, o \in Outcomes : UploadInsert(s, o)
    \/ \E s \in Slots, o \in Outcomes : UpdateSelect(s, o)
    \/ \E s \in Slots, o \in Outcomes : UpdateWrite(s, o)
    \/ \E s \in Slots, o \in Outcomes : DeleteSelect(s, o)
    \/ \E s \in Slots, o \in Outcomes : DeleteRemove(s, o)
    \/ \E s \in Slots, o \in Outcomes : DeleteRow(s, o)
    \/ \E s \in Slots, o \in Outcomes : UrlSelect(s, o)
    \/ \E s \in Slots, o \in Outcomes : UrlSign(s, o)
    \/ \E s \in Slots : Deliver(s)
    \/ NextClient
    \/ NextForm
    \/ NextResolve

Spec == Init /\ [][Next]_vars
SpecUpdate == Init /\ [][NextUpdate]_vars
SpecStore == Init /\ [][NextStore]_vars
SpecRead == Init /\ [][NextRead]_vars
SpecUpload == Init /\ [][NextUpload]_vars
SpecClient == InitClient /\ [][NextClient]_vars
SpecForm == InitClient /\ [][NextForm]_vars
SpecResolve == InitClient /\ [][NextResolve]_vars
SpecRace == InitFetching /\ [][NextRace]_vars
SpecProfile == InitFetching /\ [][NextProfile]_vars
SpecRows == InitRows /\ [][NextRows]_vars

\* fetchDocuments called again (by the effect on `profile`, by refetch, by
\* addDocument) while an earlier call still awaits its query
NextFetch ==
    \/ FetchDocuments
    \/ \E o \in ClientOutcomes : FetchSettle(o)
    \/ Switch

SpecFetch == InitClient /\ [][NextFetch]_vars

\* The loading flag: fetches, one at a time, and the safety timer. A timer that
\* is armed fires; nothing obliges the backend to answer.
NextLoading ==
    \/ FetchDocuments
    \/ \E o \in ClientOutcomes : FetchSettle(o)
    \/ SafetyTimer

SpecLoading == InitClient /\ [][NextLoading]_vars /\ WF_vars(SafetyTimer)

\* The onboarding page of u1, who picked an industry on an earlier visit and
\* has come to the `name` step; or of nobody
InitAutosave ==
    /\ InitServer
    /\ client = Mounted(TRUE, "u1")
    /\ viewer = PublicPage("me")
    /\ \E p \in {NoProfile, [UserProfile("u1") EXCEPT !["industry"] = "x"]} :
          wizard = Onboarding(p, 2)

\* Typing into the step's input, time passing, the save timer and the saves,
\* and the context replacing the profile
NextAutosave ==
    \/ \E v \in {"", "x", "y"} : HandleChange(v)
    \/ \E p \in {NoProfile, [UserProfile("u1") EXCEPT !["industry"] = "x"]} : ProfileChanges(p)
    \/ Tick
    \/ TimerFires
    \/ \E i \in 1 .. MaxSaves, o \in Outcomes, first \in {"then", "render"} :
          SaveSettle(i, o, first)

\* The documents page of u1 with the upload dialog open and a file picked
InitDialog ==
    /\ InitServer
    /\ OtherPages
    /\ client = [ResetUpload(Mounted(TRUE, "u1"))
                    EXCEPT !.isUploadOpen = TRUE, !.uploadName = "f",
                           !.uploadFile = [hasFile |-> TRUE, filename |-> "f", size |-> 2048]]

\* The dialog used while an upload it started is still in flight
NextDialog ==
    \/ NextForm
    \/ Switch

SpecDialog == InitDialog /\ [][NextDialog]_vars

SpecAutosave == InitAutosave /\ [][NextAutosave]_vars

\* The onboarding page as u1 opens it, on its first step
InitWizard ==
    /\ InitServer
    /\ client = Mounted(TRUE, "u1")
    /\ viewer = PublicPage("me")
    /\ wizard = Onboarding(UserProfile("u1"), 0)

\* The wizard's buttons and keys, and the photo upload
NextWizard ==
    \/ \E v \in {"", "x"} : HandleChange(v)
    \/ PickIndustry
    \/ PressEnter
    \/ ClickSuggestion
    \/ AdvanceFires
    \/ Back
    \/ Skip
    \/ Continue
    \/ TogglePhotoModal
    \/ HandlePhotoUpload
    \/ \E o \in {"ok", "error", "throw"} : PhotoStored(o)
    \/ \E o \in Outcomes : PhotoSaved(o)

SpecWizard == InitWizard /\ [][NextWizard]_vars

----------------------------------------------------------------------------
(* PublicProfilePage *)

\* The :userId of the route: 'me', a user, an id no profile has, or nothing
Routes == {"me", "", "u3"} \cup Users

\* .from('documents').select('*').eq('user_id', id).eq('visibility', 'public')
\* .order('created_at', { ascending: false }): rows, with no public_url yet
PublicRecords(table, id) ==
    LET docs == Newest(table, {d \in IdsOf(table, id) : table[d].visibility = "public"})
    IN [i \in DOMAIN docs |-> [docs[i] EXCEPT !.public_url = NoUrl]]

\* fetchPublicDocuments(profileId), up to its await
FetchPublicDocuments(v, backend, id) ==
    IF ~backend THEN v
    ELSE [v EXCEPT !.documentsLoading = TRUE,
                   !.flights = @ \cup {[kind |-> "docs", id |-> id, docs |-> <<>>]}]

\* fetchPublicProfile(id), up to its await
FetchPublicProfile(v, backend, id) ==
    LET w == [v EXCEPT !.pageLoading = TRUE, !.pageError = Null, !.fetchedProfileId = id]
    IN IF ~backend
       THEN [w EXCEPT !.pageError = "Application is not connected to a backend service.",
                      !.pageLoading = FALSE]
       ELSE [w EXCEPT !.flights = @ \cup {[kind |-> "profile", id |-> id, docs |-> <<>>]}]

\* The effect on [cleanUserId, profile?.id, authUserLoading], the context
\* loaded: c is the browser, c.profile the user logged in
PageEffect(v, c) ==
    LET w == IF v.cleanUserId # v.fetchedProfileId
             THEN [v EXCEPT !.publicProfile = Null, !.pageError = Null,
                            !.fetchedProfileId = Null]
             ELSE v
    IN IF w.cleanUserId = "me"
       THEN IF c.profile = NoUser THEN [w EXCEPT !.pageLoading = FALSE]
            ELSE FetchPublicDocuments([w EXCEPT !.pageLoading = FALSE], c.backend, c.profile)
       ELSE IF w.cleanUserId # ""
       THEN IF w.fetchedProfileId # w.cleanUserId
            THEN FetchPublicProfile(w, c.backend, w.cleanUserId)
            ELSE [w EXCEPT !.pageLoading = FALSE]
       ELSE [w EXCEPT !.pageError = "Invalid profile URL.", !.pageLoading = FALSE]

Views(v) ==
    /\ viewer' = v
    /\ UNCHANGED <<client, configured, rows, nextId, storage, now, reqs, orphaned, dangling,
                   wizard>>

\* The route changes to another :userId
Navigate(id) ==
    /\ served < MaxServed
    /\ id # viewer.cleanUserId
    /\ served' = served + 1
    /\ Views(PageEffect([viewer EXCEPT !.cleanUserId = id], client))

\* The profiles query settled: setPublicProfile and fetchPublicDocuments(id),
\* or the catch
ProfileFetched(v, f, o, backend) ==
    LET w == [v EXCEPT !.flights = @ \ {f}, !.pageLoading = FALSE]
    IN IF o = "ok" /\ f.id \in Users
       THEN FetchPublicDocuments([w EXCEPT !.publicProfile = f.id], backend, f.id)
       ELSE [w EXCEPT !.pageError = "Profile not found."]

ProfileSettle(o) ==
    \E f \in viewer.flights :
        /\ f.kind = "profile"
        /\ UNCHANGED served
        /\ Views(ProfileFetched(viewer, f, o, client.backend))

\* The documents query settled: setPublicDocuments(docRecords), and the URLs
\* are resolved in the background; or the catch
DocumentsFetched(v, f, o, table, me) ==
    LET w == [v EXCEPT !.flights = @ \ {f}, !.documentsLoading = FALSE]
    IN IF o # "ok" THEN w
       ELSE [w EXCEPT !.publicDocuments = PublicRecords(table, f.id),
                      !.flights = @ \cup {[kind |-> "urls", id |-> f.id,
                                           docs |-> PublicRecords(table, f.id)]}]

DocumentsSettle(o) ==
    \E f \in viewer.flights :
        /\ f.kind = "docs"
        /\ UNCHANGED served
        /\ Views(DocumentsFetched(viewer, f, o, rows, client.profile))

\* Promise.all settled: each document with its signed URL, or with its public
\* URL where signing failed; setPublicDocuments(enhancedDocs)
UrlsResolved(v, f, signed) ==
    [v EXCEPT !.flights = @ \ {f},
              !.publicDocuments =
                  [i \in DOMAIN f.docs |->
                      [f.docs[i] EXCEPT !.public_url =
                           IF f.docs[i].id \in signed THEN SignedUrl(f.docs[i].file_path)
                           ELSE PublicUrl(f.docs[i].file_path)]]]

UrlsSettle(signed) ==
    \E f \in viewer.flights :
        /\ f.kind = "urls"
        /\ UNCHANGED served
        /\ Views(UrlsResolved(viewer, f, signed))


\* Any browser on the public profile page of some route, its effect run
InitViewer ==
    /\ InitServer
    /\ wizard = Constructed(NoProfile, 0)
    /\ \E b \in BOOLEAN, p \in Users \cup {NoUser}, id \in Routes :
          /\ client = Mounted(b, p)
          /\ viewer = PageEffect(PublicPage(id), client)

NextViewer ==
    \/ \E id \in Routes : Navigate(id)
    \/ \E o \in Outcomes : ProfileSettle(o)
    \/ \E o \in Outcomes : DocumentsSettle(o)
    \/ \E signed \in SUBSET DocIds : UrlsSettle(signed)

SpecViewer == InitViewer /\ [][NextViewer]_vars

----------------------------------------------------------------------------
(* Properties *)

\* C1: on a configured server, a request with the endpoint's own method whose
\* Authorization header is absent, is not a Bearer header, or carries a token
\* that belongs to no user is answered 401, and the handler issues no call on
\* the documents table or the bucket for it.
C1_UnauthenticatedGets401 ==
    \A s \in Slots :
        LET r == reqs[s] IN
        (/\ configured
         /\ r.pc # "idle"
         /\ r.method = (IF r.ep = "list" THEN "GET" ELSE "POST")
         /\ (~r.hdr.present \/ r.hdr.scheme # "Bearer " \/ r.hdr.rest \notin Users))
        => /\ r.calls = <<>>
           /\ r.errors = {}
           /\ r.pc \in {"getUser", "done"}
           /\ r.pc = "done" => (r.status = 401 /\ r.rkey = "error")

\* C1 witness: a Bearer token of no user was answered 401
C1_Witness ==
    \E s \in Slots :
        /\ configured
        /\ reqs[s].pc = "done" /\ reqs[s].status = 401
        /\ reqs[s].hdr.scheme = "Bearer " /\ reqs[s].hdr.rest = "stale"

\* C2: no step of an update-document request changes a row whose user_id is not
\* the requester's id; when the ownership lookup finds such a row the request
\* ends with an error (403 from update-document.js, 404 from the user-scoped
\* variant or when the lookup itself fails).
C2_UpdateLeavesForeignRows ==
    [][\A s \in Slots :
         (reqs[s].ep \in {"update", "updateScoped"} /\ reqs'[s] # reqs[s])
         => \A d \in DOMAIN rows :
               rows[d].user_id # reqs[s].hdr.rest
               => /\ d \in DOMAIN rows' /\ rows'[d] = rows[d]
                  /\ (reqs[s].pc = "select" /\ reqs[s].docId = d)
                     => /\ reqs'[s].pc = "done"
                        /\ reqs'[s].rkey = "error"
                        /\ reqs'[s].status \in {403, 404}
                        /\ (reqs[s].ep = "update" /\ reqs'[s].errors = {})
                           => reqs'[s].rval = "You do not own this document"]_vars

\* C2 witness: update-document.js answered 403 for a row of another user
C2_Witness ==
    \E s \in Slots :
        /\ reqs[s].ep = "update" /\ reqs[s].pc = "done" /\ reqs[s].status = 403
        /\ reqs[s].docId \in DOMAIN rows
        /\ rows[reqs[s].docId].user_id # reqs[s].hdr.rest
        /\ reqs[s].calls = <<"db.select">>

\* C3: a step of an update-document request adds and removes no row, leaves
\* every row but the addressed one as it was, and changes nothing but name and
\* visibility of the addressed row, whatever else the body holds.
C3_UpdateTouchesNameAndVisibility ==
    [][\A s \in Slots :
         (reqs[s].ep \in {"update", "updateScoped"} /\ reqs'[s] # reqs[s])
         => /\ DOMAIN rows' = DOMAIN rows
            /\ \A d \in DOMAIN rows :
                  IF d = reqs[s].docId
                  THEN [rows'[d] EXCEPT !.name = rows[d].name,
                                        !.visibility = rows[d].visibility] = rows[d]
                  ELSE rows'[d] = rows[d]]_vars

\* C3 witness: a body with a user_id field was answered 200 and the row of the
\* requester carries the new name
C3_Witness ==
    \E s \in Slots :
        /\ reqs[s].ep \in {"update", "updateScoped"}
        /\ reqs[s].pc = "done" /\ reqs[s].status = 200 /\ reqs[s].rkey = "document"
        /\ reqs[s].extra = "u2"
        /\ reqs[s].docId \in DOMAIN rows
        /\ rows[reqs[s].docId].name = "b"
        /\ rows[reqs[s].docId].user_id = reqs[s].hdr.rest

\* C4: the update call DocumentContext.updateDocument issues follows an
\* ownership lookup, and its payload holds no field besides name and visibility.
C4_ClientUpdateAllowListed ==
    client.pc = "updating"
    => /\ client.payload.user_id = Undef
       /\ \E i \in DOMAIN client.calls : client.calls[i] = "db.select"

\* C5: no step of a delete-document request removes a row that is not the
\* requester's, or the object of such a row; when the lookup finds such a row
\* the request ends with 403 or 404.
C5_DeleteLeavesForeignDocuments ==
    [][\A s \in Slots :
         (reqs[s].ep \in {"delete", "deleteScoped"} /\ reqs'[s] # reqs[s])
         => \A d \in DOMAIN rows :
               rows[d].user_id # reqs[s].hdr.rest
               => /\ d \in DOMAIN rows' /\ rows'[d] = rows[d]
                  /\ rows[d].file_path \in storage => rows[d].file_path \in storage'
                  /\ (reqs[s].pc = "select" /\ reqs[s].docId = d)
                     => /\ reqs'[s].pc = "done"
                        /\ reqs'[s].rkey = "error"
                        /\ reqs'[s].status \in {403, 404}]_vars

\* C5 witness: a delete request for another user's document was refused, and
\* the row and its object are there
C5_Witness ==
    \E s \in Slots :
        /\ reqs[s].ep \in {"delete", "deleteScoped"}
        /\ reqs[s].pc = "done" /\ reqs[s].status \in {403, 404}
        /\ reqs[s].hdr.rest \in Users
        /\ reqs[s].docId \in DOMAIN rows
        /\ rows[reqs[s].docId].user_id # reqs[s].hdr.rest
        /\ rows[reqs[s].docId].file_path \in storage

\* C6 as stated: a delete request whose storage removal reported an error ends
\* with the row deleted and 200 {success: true}.
C6_StorageErrorStill200 ==
    \A s \in Slots :
        (/\ reqs[s].ep \in {"delete", "deleteScoped"}
         /\ reqs[s].pc = "done"
         /\ "storage" \in reqs[s].errors)
        => /\ reqs[s].status = 200
           /\ reqs[s].docId \notin DOMAIN rows

\* C6 amended: after a storage removal that reported an error the handler
\* issues the row deletion; if the deletion succeeds the row is gone and the
\* answer is 200 {success: true}, if it fails the answer is 500 with the
\* database error; the storage error is in neither response.
C6_StorageErrorSwallowed ==
    \A s \in Slots :
        LET r == reqs[s] IN
        (r.ep \in {"delete", "deleteScoped"} /\ "storage" \in r.errors)
        => /\ r.pc \in {"deleteRow", "done"}
           /\ r.calls = <<"db.select", "storage.remove", "db.delete">>
           /\ (r.pc = "done" /\ "db" \notin r.errors)
              => /\ r.status = 200 /\ r.rkey = "success" /\ r.rval = TRUE
                 /\ r.docId \notin DOMAIN rows
           /\ (r.pc = "done" /\ "db" \in r.errors)
              => r.status = 500 /\ r.rkey = "error" /\ r.rval = DbError

\* C6 witness: the storage removal failed and the request was answered 200
C6_Witness ==
    \E s \in Slots :
        /\ reqs[s].ep \in {"delete", "deleteScoped"}
        /\ reqs[s].pc = "done" /\ reqs[s].status = 200
        /\ "storage" \in reqs[s].errors
        /\ reqs[s].docId \notin DOMAIN rows

\* C7: with no backend failure, an authenticated get-document-url request for a
\* document id is answered 200 with a URL exactly when the document exists and
\* the requester owns it or it is public; a non-owner asking for a private
\* document gets no URL and no signing call is issued.
C7_UrlIffOwnerOrPublic ==
    \A s \in Slots :
        LET r == reqs[s] IN
        (/\ r.ep \in {"getUrl", "getUrlScoped"}
         /\ r.pc = "done"
         /\ r.hdr.rest \in Users /\ r.user = r.hdr.rest
         /\ r.docId # NoDoc
         /\ r.errors = {})
        => /\ (r.status = 200 /\ r.rkey = "url")
              <=> (/\ r.docId \in DOMAIN rows
                   /\ (rows[r.docId].user_id = r.user \/ rows[r.docId].visibility = "public"))
           /\ (/\ r.docId \in DOMAIN rows
               /\ rows[r.docId].user_id # r.user
               /\ rows[r.docId].visibility # "public")
              => (r.rkey = "error" /\ r.calls = <<"db.select">>)

\* C8: the list a list-documents request is answered with, and the list the
\* client's fetchDocuments stores, holds exactly the rows whose user_id is the
\* requester's id, each once and with the row's own fields, and an entry has a
\* public_url exactly when its visibility is public.
C8_ListsOwnRowsOnly ==
    [][LET Exact(docs, u) ==
               /\ {docs[i].id : i \in DOMAIN docs} = {d \in DOMAIN rows : rows[d].user_id = u}
               /\ \A i, j \in DOMAIN docs : docs[i].id = docs[j].id => i = j
               /\ \A i \in DOMAIN docs :
                     /\ docs[i].user_id = u
                     /\ [f \in DOMAIN rows[docs[i].id] |-> docs[i][f]] = rows[docs[i].id]
                     /\ docs[i].public_url # NoUrl <=> docs[i].visibility = "public"
       IN /\ \A s \in Slots :
                (/\ reqs[s].ep = "list" /\ reqs[s].pc = "select"
                 /\ reqs'[s].pc = "done" /\ reqs'[s].status = 200)
                => /\ reqs'[s].rkey = "documents"
                   /\ Exact(reqs'[s].rval, reqs[s].hdr.rest)
          /\ (client.pc = "fetching" /\ client'.pc = "idle" /\ client'.error = Null)
             => Exact(client'.documents, client.profile)]_vars

\* C8 witness: a list answer holding a public document with its public_url
C8_Witness ==
    \E s \in Slots :
        /\ reqs[s].ep = "list" /\ reqs[s].pc = "done" /\ reqs[s].status = 200
        /\ reqs[s].rkey = "documents"
        /\ Len(reqs[s].rval) > 0
        /\ reqs[s].rval[1].visibility = "public"
        /\ reqs[s].rval[1].public_url # NoUrl
        /\ \E d \in DOMAIN rows : rows[d].user_id # reqs[s].hdr.rest

\* C9: a row enters the table only by the insert of an upload request that has
\* issued its storage upload and got no error for it; the row has the
\* requester's id as user_id and the uploaded key {userId}/{timestamp}_{filename}
\* as file_path; an upload request whose storage upload failed ends with an
\* error response and inserts nothing.
C9_RowAfterStoredObject ==
    [][/\ \A d \in (DOMAIN rows') \ (DOMAIN rows) :
             \E s \in Slots :
                 LET r == reqs[s] IN
                 /\ r.ep = "upload" /\ r.pc = "insert" /\ reqs'[s].pc = "done"
                 /\ r.calls = <<"storage.upload", "db.insert">>
                 /\ r.errors = {}
                 /\ rows'[d].user_id = r.hdr.rest
                 /\ rows'[d].file_path = r.key
                 /\ r.key[1] = r.hdr.rest /\ r.key[2] \in 0..now /\ r.key[3] = "f"
       /\ \A s \in Slots :
             (/\ reqs[s].ep = "upload" /\ reqs'[s] # reqs[s]
              /\ "storage" \in reqs'[s].errors)
             => /\ rows' = rows
                /\ reqs'[s].pc = "done"
                /\ reqs'[s].rkey = "error" /\ reqs'[s].status = 400
                /\ reqs'[s].calls = <<"storage.upload">>]_vars

\* C9 witness: an upload was answered 200 and its row and its object are there
C9_Witness ==
    \E s \in Slots, d \in DOMAIN rows :
        /\ reqs[s].ep = "upload" /\ reqs[s].pc = "done" /\ reqs[s].status = 200
        /\ reqs[s].calls = <<"storage.upload", "db.insert">>
        /\ rows[d].user_id = reqs[s].hdr.rest
        /\ rows[d].file_path[2] > 0
        /\ rows[d].file_path \in storage

\* C10 as stated: the object of an upload whose insert failed stays in the
\* bucket with no row, and the row of a delete whose row deletion failed after
\* its object was removed stays in the table with its object gone, whatever
\* happens later.
C10_NeverRepaired ==
    /\ \A k \in orphaned :
          k \in storage /\ \A d \in DOMAIN rows : rows[d].file_path # k
    /\ \A d \in dangling :
          d \in DOMAIN rows /\ rows[d].file_path \notin storage

\* C10 amended: an upload whose insert fails issues no storage removal and
\* leaves its object with no row; such an object is never removed and never
\* gets a row by an operation that does not hold its key already; a row left
\* by a failed row deletion stays with its object gone until a later delete
\* of that document deletes the row, or an upload stores an object under the
\* row's key.
C10_OrphanStaysDanglingUntilDeleted ==
    [][LET Orphan(k) ==
               /\ k \in storage
               /\ \A d \in DOMAIN rows : rows[d].file_path # k
               /\ \A s \in Slots : reqs[s].key = k => reqs[s].pc = "store"
               /\ client.key # k
               /\ \A i \in DOMAIN client.documents : client.documents[i].file_path # k
           Dangling(d) == d \in DOMAIN rows /\ rows[d].file_path \notin storage
       IN /\ \A s \in Slots :
                (/\ reqs[s].ep = "upload" /\ reqs[s].pc = "insert"
                 /\ "db" \in reqs'[s].errors)
                => /\ reqs'[s].pc = "done" /\ reqs'[s].rkey = "error"
                   /\ reqs'[s].calls = <<"storage.upload", "db.insert">>
                   /\ storage' = storage /\ rows' = rows
                   /\ reqs[s].key \in storage => reqs[s].key \in orphaned'
          /\ \A k \in orphaned : Orphan(k) => Orphan(k)'
          /\ \A d \in dangling :
                Dangling(d)
                => \/ Dangling(d)'
                   \/ /\ d \notin DOMAIN rows'
                      /\ \/ \E s \in Slots :
                               /\ reqs[s].ep \in {"delete", "deleteScoped"}
                               /\ reqs[s].pc = "deleteRow" /\ reqs[s].docId = d
                               /\ reqs[s].hdr.rest = rows[d].user_id
                               /\ reqs'[s].status = 200
                         \/ client.pc = "deleting" /\ client.docId = d
                   \/ /\ rows[d].file_path \in storage'
                      /\ \E s \in Slots :
                            /\ reqs[s].ep = "upload" /\ reqs[s].pc = "store"
                            /\ reqs[s].key = rows[d].file_path]_vars

\* C10 witness: an object with no row left by a failed insert, and a row whose
\* object is gone left by a failed row deletion
C10_Witness ==
    /\ \E k \in orphaned :
          k \in storage /\ \A d \in DOMAIN rows : rows[d].file_path # k
    /\ \E d \in dangling :
          d \in DOMAIN rows /\ rows[d].file_path \notin storage
    /\ \A s \in Slots : reqs[s].pc = "idle"

\* C11: the upload dialog calls addDocument only with a file selected, a
\* non-empty resolved name and a size of at most 15*1024*1024 bytes; a submit
\* with a larger file sets uploadError, starts no upload, and leaves uploadBusy,
\* the upload token, the documents list, the bucket and the table as they were.
C11_UploadOnlyWithinLimit ==
    [][LET f == client.uploadFile
           started == /\ client.pc = "idle"
                      /\ \/ client'.pc = "storing"
                         \/ Len(client'.documents) > Len(client.documents)
           submitted == client.isUploadOpen /\ served' = served + 1
       IN /\ started => /\ f # NoFile
                         /\ OrElse(Trim(client.uploadName), f.filename) # ""
                         /\ f.size <= MAX_BYTES
          /\ (submitted /\ f # NoFile /\ f.size > MAX_BYTES) =>
                /\ client'.uploadError # Null
                /\ client'.pc = "idle"
                /\ client'.calls = client.calls
                /\ client'.uploadBusy = client.uploadBusy
                /\ client'.uploadToken = client.uploadToken
                /\ client'.documents = client.documents
                /\ storage' = storage /\ rows' = rows]_vars

\* A file one byte over the limit was submitted and refused
C11_Witness ==
    /\ client.isUploadOpen
    /\ client.uploadFile # NoFile /\ client.uploadFile.size = MAX_BYTES + 1
    /\ client.uploadError = "File too large. Max 15MB."
    /\ client.pc = "idle" /\ ~client.uploadBusy

\* C12: upload-document enforces its 15MB limit: a request whose file part is
\* over 15*1024*1024 bytes is answered with an error, and the handler issues
\* neither the storage upload nor the row insert for it.
C12_OversizeRejected ==
    \A s \in Slots :
        (reqs[s].ep = "upload" /\ reqs[s].oversize) =>
            /\ reqs[s].pc = "done" => (reqs[s].status # 200 /\ reqs[s].rkey = "error")
            /\ \A i \in DOMAIN reqs[s].calls :
                   reqs[s].calls[i] \notin {"storage.upload", "db.insert"}

\* C13: every response to a request other than OPTIONS has a status among 200,
\* 400, 401, 403, 404, 405 and 500; its body has the key `error` exactly when
\* the status is not 200, and on 200 it has the success key of its endpoint.
C13_ResponseShape ==
    \A s \in Slots :
        (reqs[s].pc = "done" /\ reqs[s].method # "OPTIONS") =>
            /\ reqs[s].status \in {200, 400, 401, 403, 404, 405, 500}
            /\ reqs[s].rkey = "error" <=> reqs[s].status # 200
            /\ reqs[s].status = 200 =>
                  reqs[s].rkey = CASE reqs[s].ep = "list" -> "documents"
                                   [] reqs[s].ep \in Uploads \cup {"update", "updateScoped"}
                                        -> "document"
                                   [] reqs[s].ep \in {"delete", "deleteScoped"} -> "success"
                                   [] OTHER -> "url"

\* A deletion was answered 200 {success}
C13_Witness ==
    \E s \in Slots : /\ reqs[s].pc = "done" /\ reqs[s].ep = "delete"
                      /\ reqs[s].method = "POST"
                      /\ reqs[s].status = 200 /\ reqs[s].rkey = "success"

\* C14: after any sequence of upload and update requests, the visibility of
\* every row of the table is 'public' or 'private'.
C14_VisibilityPublicOrPrivate ==
    \A d \in DOMAIN rows : rows[d].visibility \in {"public", "private"}

\* C15: a row with a non-empty file_path leaves the table only by a deletion
\* (of a handler or of deleteDocument) that has issued the removal of the
\* object before; deleteDocument takes the document off the local list only
\* when its row deletion succeeded, and leaves the list as it was when the row
\* deletion failed.
C15_RemovalBeforeRowDeletion ==
    [][/\ \A d \in (DOMAIN rows) \ (DOMAIN rows') :
            rows[d].file_path # NoKey =>
               \/ \E s \in Slots :
                     /\ reqs[s].pc = "deleteRow" /\ reqs[s].docId = d
                     /\ reqs'[s].pc = "done"
                     /\ \E i \in DOMAIN reqs[s].calls : reqs[s].calls[i] = "storage.remove"
               \/ /\ client.pc = "deleting" /\ client.docId = d
                  /\ client'.pc = "idle"
                  /\ \E i \in DOMAIN client.calls : client.calls[i] = "storage.remove"
       /\ (/\ client.pc \in {"removing", "deleting"}
           /\ Found(client.documents, client.docId)
           /\ ~Found(client'.documents, client.docId)) =>
              /\ client.pc = "deleting"
              /\ client.docId \notin DOMAIN rows'
              /\ ~client'.thrown
       /\ (client.pc = "deleting" /\ client'.pc = "idle" /\ client'.thrown) =>
              client'.documents = client.documents]_vars

\* The handler answered 200 after removing the object and then deleting the row
C15_Witness ==
    \E s \in Slots : /\ reqs[s].ep = "delete" /\ reqs[s].pc = "done"
                      /\ reqs[s].status = 200
                      /\ reqs[s].calls = <<"db.select", "storage.remove", "db.delete">>
                      /\ reqs[s].docId \notin DOMAIN rows

\* C16 as stated: whatever the failure of the storage removal, deleteDocument
\* goes on to the row deletion and nothing is thrown to its caller.
C16_EveryStorageFailureSwallowed ==
    [][(client.pc = "removing" /\ client' # client) =>
         (client'.pc = "deleting" /\ ~client'.thrown)]_vars

\* C16, amended: a storage removal that ends with an error in its result is
\* swallowed (logged, the row deletion issued, nothing thrown); one that ends
\* with the timer firing or the call rejecting makes deleteDocument throw before
\* any row deletion is issued, the table and the documents list unchanged.
C16_OnlyErrorResultSwallowed ==
    [][(client.pc = "removing" /\ client' # client) =>
         /\ client'.pc = "deleting" \/ "rejected" \in client'.errors
         /\ "storage" \in client'.errors =>
               /\ client'.pc = "deleting" /\ ~client'.thrown
               /\ client'.calls = Append(client.calls, "db.delete")
         /\ "rejected" \in client'.errors =>
               /\ client'.pc = "idle" /\ client'.thrown
               /\ client'.calls = client.calls
               /\ rows' = rows
               /\ client'.documents = client.documents]_vars

\* The removal reported an error and the row deletion is in flight
C16_Witness ==
    /\ client.pc = "deleting"
    /\ "storage" \in client.errors
    /\ client.calls = <<"storage.remove", "db.delete">>
    /\ client.docId \in DOMAIN rows

\* C17 as stated: resolveDocUrl answers a public document with a cached
\* public_url with no call; otherwise it makes at most one request to the
\* endpoint, and only with a session token; it starts the direct signed-URL call
\* at most once and only after that request has failed, timed out, returned 404
\* or returned no url; it returns null only when neither path yields a URL.
C17_DirectOnlyAfterFailedRequest ==
    [][client'.op = "resolve" =>
         LET c == client'
             doc == Find(c.documents, c.docId)
             made(call) == {i \in DOMAIN c.calls : c.calls[i] = call}
             failed == c.errors \cap {"nourl", "404", "refused", "throw", "timeout"} # {}
         IN /\ (client.pc = "idle" /\ served' = served + 1
                 /\ doc.visibility = "public" /\ doc.public_url # NoUrl) =>
                   (c.pc = "idle" /\ c.calls = <<>> /\ c.url = doc.public_url)
            /\ Cardinality(made("fetch")) <= 1
            /\ made("fetch") # {} => c.session
            /\ Cardinality(made("storage.createSignedUrl")) <= 1
            /\ (c.pc = "signing" /\ client.pc # "signing") =>
                   (client.pc = "resolving" /\ failed)
            /\ (c.pc = "idle" /\ c.url = NoUrl) =>
                   /\ made("fetch") = {} \/ failed
                   /\ IF made("storage.createSignedUrl") # {} THEN "sign" \in c.errors
                      ELSE ~c.backend /\ doc.public_url = NoUrl]_vars

\* C17, amended: as stated, except that the direct signed-URL call is started
\* either after the request has failed, timed out, returned 404 or returned no
\* url, or at once when no request is made for want of a session token.
C17_LinearFallbackNoRetry ==
    [][client'.op = "resolve" =>
         LET c == client'
             doc == Find(c.documents, c.docId)
             made(call) == {i \in DOMAIN c.calls : c.calls[i] = call}
             failed == c.errors \cap {"nourl", "404", "refused", "throw", "timeout"} # {}
         IN /\ (client.pc = "idle" /\ served' = served + 1
                 /\ doc.visibility = "public" /\ doc.public_url # NoUrl) =>
                   (c.pc = "idle" /\ c.calls = <<>> /\ c.url = doc.public_url)
            /\ Cardinality(made("fetch")) <= 1
            /\ made("fetch") # {} => c.session
            /\ Cardinality(made("storage.createSignedUrl")) <= 1
            /\ (c.pc = "signing" /\ client.pc # "signing") =>
                   \/ client.pc = "resolving" /\ failed
                   \/ client.pc = "idle" /\ ~c.session /\ made("fetch") = {}
            /\ (c.pc = "idle" /\ c.url = NoUrl) =>
                   /\ made("fetch") = {} \/ failed
                   /\ IF made("storage.createSignedUrl") # {} THEN "sign" \in c.errors
                      ELSE ~c.backend /\ doc.public_url = NoUrl]_vars

\* The endpoint answered 404 and the direct call gave the URL
C17_Witness ==
    /\ client.op = "resolve" /\ client.pc = "idle"
    /\ client.calls = <<"fetch", "storage.createSignedUrl">>
    /\ "404" \in client.errors
    /\ client.url = SignedUrl(client.key)

\* C18 as stated: the request to the endpoint and the direct call are in flight
\* at the same time.
C18_BothInFlight ==
    (client.op = "resolve" /\ client.pc = "resolving") =>
        \E i \in DOMAIN client.calls : client.calls[i] = "storage.createSignedUrl"

\* C18, amended: the two are never in flight together. While the request is in
\* flight no direct call has been started; the direct call is in flight only
\* once the request is over without a url (or was never made); and a url from
\* the endpoint is the result with no direct call started at all.
C18_RequestThenDirectCall ==
    client.op = "resolve" =>
        LET failed == client.errors \cap {"nourl", "404", "refused", "throw", "timeout"} # {}
        IN /\ client.pc = "resolving" => client.calls = <<"fetch">>
           /\ client.pc = "signing" =>
                 \/ client.calls = <<"storage.createSignedUrl">>
                 \/ client.calls = <<"fetch", "storage.createSignedUrl">> /\ failed
           /\ (client.pc = "idle" /\ client.calls # <<>> /\ client.calls[1] = "fetch"
                  /\ ~failed) =>
                 (client.calls = <<"fetch">> /\ client.url = SignedUrl(client.key))

\* The abort timer ended the request and the direct call is in flight
C18_Witness ==
    /\ client.op = "resolve" /\ client.pc = "signing"
    /\ client.calls = <<"fetch", "storage.createSignedUrl">>
    /\ client.errors = {"timeout"}

\* C19: nothing orders concurrent updates and deletions of a document. A write
\* that reaches the table replaces what is there, whichever update it belongs
\* to and whatever else is in flight; the browser's copy becomes the row
\* returned with the answer that arrives, whatever the table holds by then; and
\* an update of the endpoint whose row was deleted after its ownership check
\* fails with 500 and writes nothing.
C19_NoResolutionOrder ==
    [][/\ \A d \in (DOMAIN rows) \cap (DOMAIN rows') :
            rows'[d] # rows[d] =>
               \/ \E s \in Slots : /\ reqs[s].pc = "write" /\ reqs[s].docId = d
                                    /\ rows'[d] = ApplyUpdate(rows[d], reqs[s].payload)
               \/ /\ client.pc = "updating" /\ client.docId = d
                  /\ rows'[d] = ApplyUpdate(rows[d], client.payload)
       /\ (client.pc = "updated" /\ client'.pc = "idle"
              /\ client'.waiting = client.waiting) =>
            IF client.result = "ok"
            THEN /\ ~client'.thrown
                 /\ client'.documents = MergeInto(client.documents, client.docId, client.data)
            ELSE client'.thrown /\ client'.documents = client.documents
       /\ \A s \in Slots :
            (/\ reqs[s].pc = "write" /\ reqs'[s].pc = "done"
             /\ reqs[s].docId \notin DOMAIN rows) =>
                /\ reqs'[s].status = 500 /\ reqs'[s].rkey = "error"
                /\ rows' = rows]_vars

\* Two updateDocument calls for the same document have both succeeded, and the
\* browser's copy is not the row of the table
C19_Witness ==
    /\ client.pc = "idle" /\ client.waiting.pc = "idle"
    /\ client.calls = <<"db.update">> /\ client.waiting.calls = <<"db.update">>
    /\ ~client.thrown /\ ~client.waiting.thrown
    /\ client.docId = client.waiting.docId
    /\ client.docId \in DOMAIN rows
    /\ Found(client.documents, client.docId)
    /\ Find(client.documents, client.docId).visibility # rows[client.docId].visibility

\* C20: the outcomes of fetchDocuments. A call that fails leaves the loaded list
\* as it was, sets error to a message and loading to false; one that succeeds
\* leaves error null and loading false; without a backend client the list
\* becomes the three fallback documents, without a user id it becomes empty,
\* both with error null and loading false.
C20_FetchOutcomes ==
    [][/\ (client.pc = "fetching" /\ client'.pc = "idle"
              /\ client'.waiting = client.waiting) =>
             /\ client'.loading = FALSE
             /\ IF "fetch" \in client'.errors
                THEN client'.documents = client.documents /\ client'.error # Null
                ELSE client'.error = Null
       /\ (client.pc = "idle" /\ client'.pc = "idle" /\ served' = served + 1) =>
             /\ client'.error = Null /\ client'.loading = FALSE
             /\ client'.documents = IF ~client.backend THEN fallbackDocuments ELSE <<>>
             /\ Len(fallbackDocuments) = 3]_vars

\* C21: the loading flag never stays true forever: whenever it is true it
\* becomes false later, by the fetch settling or by the safety timer, also
\* when the query is never answered.
C21_LoadingEnds == client.loading ~> ~client.loading

\* The timer has cleared the flag while the query is still unanswered
C21_Witness ==
    /\ client.pc = "fetching" /\ ~client.loading
    /\ client.calls = <<"db.select">>

C30_StepInRange == wizard.currentStep \in 0 .. Len(StepIds) - 1

\* C23: once no query of the public profile page is in flight, publicDocuments
\* holds only public documents of the profile being viewed, also when the
\* viewed id changed while a query was in flight.
C23_PublicDocumentsOfViewedProfile ==
    viewer.flights = {} =>
        \A i \in DOMAIN viewer.publicDocuments :
            /\ viewer.publicDocuments[i].visibility = "public"
            /\ viewer.publicDocuments[i].user_id =
                  IF viewer.cleanUserId = "me" THEN client.profile ELSE viewer.cleanUserId

\* C24: when addDocument rejects, the call has left no storage object and no
\* row of its own, then or later (the effect of a call that outlives its
\* timer is in the step that rejects), so that a retry cannot duplicate.
C24_RejectedAddLeavesNothing ==
    [][(client.pc \in {"storing", "inserting"} /\ client'.pc = "idle" /\ client'.thrown) =>
          /\ client.key \notin storage'
          /\ \A d \in DOMAIN rows' : rows'[d].file_path # client.key]_vars

\* C25: the upload token. When an upload completes whose token is no longer
\* the current one (closeUpload has run, or a newer submit has started), the
\* completion changes neither uploadError nor uploadBusy nor the dialog (open
\* or closed, file, name, visibility); and uploadBusy is true only while the
\* upload holding the current token is in flight.
C25_StaleUploadChangesNothing ==
    [][/\ (/\ client.myToken # 0 /\ client.myToken # client.uploadToken
           /\ client.pc # "idle" /\ client'.pc = "idle"
           /\ client'.waiting = client.waiting) =>
              /\ client'.uploadError = client.uploadError
              /\ client'.uploadBusy = client.uploadBusy
              /\ client'.isUploadOpen = client.isUploadOpen
              /\ client'.uploadFile = client.uploadFile
              /\ client'.uploadName = client.uploadName
              /\ client'.uploadVisibility = client.uploadVisibility
       /\ client'.uploadBusy =>
              \/ client'.pc # "idle" /\ client'.myToken = client'.uploadToken
              \/ /\ client'.waiting.pc # "idle"
                 /\ client'.waiting.myToken = client'.uploadToken]_vars

\* A second submit was made while the first upload was in flight, and the
\* first has completed: the dialog still shows the second as busy
C25_Witness ==
    /\ client.waiting.pc # "idle" /\ client.waiting.myToken = 2
    /\ client.pc = "idle" /\ client.calls # <<>> /\ client.myToken = 0
    /\ client.uploadToken = 2 /\ client.uploadBusy /\ client.isUploadOpen

\* C26: while a view, download, rename, visibility or delete operation on a
\* document row is in flight, rowBusyId equals that document's id, also when
\* operations on different rows overlap.
C26_RowBusyWhileInFlight ==
    /\ (client.pc # "idle" /\ client.row # NoDoc) => client.rowBusyId = client.row
    /\ (client.waiting.pc # "idle" /\ client.waiting.row # NoDoc) =>
           client.rowBusyId = client.waiting.row

\* C27: once all fetches in flight have settled, the documents list of the
\* provider holds only documents of the current profile's user id, and is
\* empty when there is no profile, also when the profile changed or the user
\* logged out while an earlier fetch was in flight.
C27_DocumentsOfCurrentProfile ==
    (client.pc = "idle" /\ client.waiting.pc = "idle" /\ client.backend) =>
        \A i \in DOMAIN client.documents : client.documents[i].user_id = client.profile

\* C28: with a backend configured, every document of the provider's list
\* whose visibility is private has no public_url, after any sequence of
\* fetches, uploads, renames, visibility toggles and deletes.
C28_PrivateHasNoPublicUrl ==
    client.backend =>
        \A i \in DOMAIN client.documents :
            client.documents[i].visibility = "private" => client.documents[i].public_url = NoUrl

\* C29: every handler sends exactly one response per request on every path
\* (OPTIONS, method rejection, misconfiguration, authentication failure,
\* validation failure, backend error, thrown exception and success): it never
\* answers twice, and it has answered when it returns.
C29_ExactlyOneResponse ==
    \A s \in Slots :
        /\ reqs[s].answers <= 1
        /\ reqs[s].pc = "done" => reqs[s].answers = 1

\* A handler whose try block threw has returned: its catch answered 500
C29_Witness ==
    \E s \in Slots :
        reqs[s].pc = "done" /\ reqs[s].status = 500 /\ reqs[s].rval = "thrown"
            /\ reqs[s].answers = 1

====
